---- MODULE Spec2Model ----
(***************************************************************************)
(* A model of the hcsshim client core: the utility VM's ref-counted        *)
(* resource ledger (VSMB shares, VPMEM devices), the start throttle of     *)
(* System.Start, and the create/close/wait lifecycle of a compute system   *)
(* and of a process (callback registration, background exit watcher,       *)
(* force-unblock timers, Close, Wait).                                     *)
(*                                                                         *)
(* Errors are modelled by their identity (a string tag): "nil" is Go's nil *)
(* error, a sentinel such as ErrNotAttached is its own tag, and an error   *)
(* built by fmt.Errorf is a tag of its own, different from every sentinel  *)
(* (fmt.Errorf without %w does not wrap).                                  *)
(***************************************************************************)
EXTENDS Integers, Sequences, FiniteSets, TLC

VARIABLES
    \* ---- uvm.UtilityVM (src/uvm/vsmb.go, src/unnamed/part_001)
    operatingSystem,   \* uvm.operatingSystem: "windows" or "linux"
    vsmbSharesNil,     \* uvm.vsmbShares is the nil map: never allocated
    vsmbShares,        \* uvm.vsmbShares: map hostPath -> vsmbShare
    vsmbCounter,       \* uvm.vsmbCounter
    vpmemDevices,      \* uvm.vpmemDevices: array of vpmemInfo
    \* ---- observation of the utility VM's calls
    run,               \* per host path: the adds-then-removes run in progress
    live,              \* per host path: successful adds minus successful removes
    last,              \* the call that has just returned
    \* ---- the start throttle and System.Start (src/hcs/process.go)
    maxParallel,       \* currentContainerStarts.maxParallel
    inProgress,        \* currentContainerStarts.inProgress
    startsMutex,       \* currentContainerStarts.Mutex: 0 or the caller holding it
    starter,           \* per caller of Start: where it is and what it holds
    \* ---- one System or Process and the goroutines around it (src/hcs/process.go)
    obj,               \* the fields of the System / Process
    handleLock,        \* handleLock: the writer holding it, the readers holding it
    callbackMap,       \* callbackMap: callback number -> notification context
    nextCallback,      \* nextCallback
    caller,            \* waitBackground, force-unblock timers, callers of Close
    waiter,            \* callers of Wait
    creator,           \* the caller of CreateComputeSystem
    hist,              \* observation: closes of waitBlock, writers of the outcome
    \* ---- the utility VM's callers taken step by step (uvm.m, then Modify)
    ledgerLock,        \* uvm.m: <<>> or the caller holding it
    worker,            \* per caller of AddVSMB/RemoveVSMB/AddVPMEM/RemoveVPMEM
    \* ---- unregisterCallback beside the host's notification callbacks
    callbackMapLock,   \* callbackMapLock: the writer holding it, the readers holding it
    hostCallback,      \* the host's side of the registered callback
    dispatcher,        \* per host thread running notificationWatcher
    unreg,             \* unregisterCallback: its position and its locals
    \* ---- ncproxystore.ComputeAgentStore (src/unnamed/part_002)
    agentDB,           \* the database: the compute agent bucket and its entries
    agentLast          \* the store call that has just returned

uvmVars == <<operatingSystem, vsmbSharesNil, vsmbShares, vsmbCounter, vpmemDevices, run, live, last>>
startVars == <<maxParallel, inProgress, startsMutex, starter>>

objVars == <<obj, handleLock, callbackMap, nextCallback, caller, waiter, creator, hist>>

ledgerVars == <<ledgerLock, worker>>

dispatchVars == <<callbackMapLock, hostCallback, dispatcher, unreg>>

storeVars == <<agentDB, agentLast>>

notUvmVars == <<startVars, objVars, ledgerVars, dispatchVars, storeVars>>
notStartVars == <<uvmVars, objVars, ledgerVars, dispatchVars, storeVars>>
notObjVars == <<uvmVars, startVars, ledgerVars, dispatchVars, storeVars>>

vars == <<uvmVars, startVars, objVars, ledgerVars, dispatchVars, storeVars>>

(***************************************************************************)
(* Bounds of the model.                                                    *)
(***************************************************************************)
\* Number of VPMEM slots of the table (the platform's MaxVPMEM, scaled down).
MaxVPMEM == 2
\* Largest reference count the adds of the model drive an attachment to.
MaxRef == 2
\* How far below zero (modulo 2^32) the removes of the model drive a count.
MaxWrap == 1
\* Largest value of uvm.vsmbCounter the model lets AddVSMB reach.
MaxCounter == 3
\* Number of concurrent callers of System.Start.
MaxStarters == 3
\* Number of other Systems and Processes registered before the one created.
MaxOthers == 2
\* Number of force-unblock timers Signal and Kill may start on a process.
MaxTimers == 1
\* Number of callers of Close on a System or Process.
MaxClosers == 1
\* Number of callers of Wait on a System or Process.
MaxWaiters == 2

(***************************************************************************)
(* Error values.                                                           *)
(***************************************************************************)
Nil == "nil"
ErrNotAttached == "ErrNotAttached"
errNotSupported == "errNotSupported"
ErrAlreadyClosed == "ErrAlreadyClosed"
HcsError == "HcsError"

\* The inputs of the calls.
\* Host paths, and the strings a caller may pass for one: the empty string
\* is told apart by GetVSMBUvmPath and by the VPMEM table (a free slot has
\* an empty hostPath); to the share map it is a key like any other.
HostPaths == {"hp1", "hp2"}

\* Concurrent callers of the ledger operations.
MaxWorkers == 2
Workers == {<<"uvm", i>> : i \in 1 .. MaxWorkers}
\* What a caller keeps across its call of uvm.Modify: the name it made for
\* the share, or the slot and the guest path of the device.
NoLocals == [name |-> "", deviceNumber |-> 0, uvmPath |-> ""]
IdleWorker(pc) ==
    [pc |-> pc, op |-> "", hostPath |-> "", overlapped |-> FALSE,
     asked |-> FALSE, ret |-> Nil, local |-> NoLocals, modifyErr |-> Nil]
HostPathInputs == HostPaths \cup {""}
GuestRequests == {"gr"}
UvmPathInputs == {"", "/mnt"}
\* What the host answers to hcsModifyComputeSystem.
HcsModifyResults == {Nil, HcsError}

(***************************************************************************)
(* strconv.FormatUint / strconv.Itoa / fmt's %d: the digits of n in base.  *)
(***************************************************************************)
Digits == <<"0", "1", "2", "3", "4", "5", "6", "7", "8", "9",
            "a", "b", "c", "d", "e", "f">>

RECURSIVE FormatUint(_, _)
FormatUint(n, base) ==
    IF n < base THEN Digits[n + 1]
    ELSE FormatUint(n \div base, base) \o Digits[(n % base) + 1]

Itoa(n) == FormatUint(n, 10)

(***************************************************************************)
(* Reference counts are uint32.  A count is held as its two's-complement   *)
(* residue, so that -1 stands for 4294967295 (0 decremented), -2 for       *)
(* 4294967294, and so on; the unsigned test "refCount > 0" is then         *)
(* "refCount # 0".                                                         *)
(***************************************************************************)
IncRef(n) == n + 1
DecRef(n) == n - 1

\* RemoveVSMB's test with ">=" for ">": true of every unsigned count.
RefNotNegative(n) == TRUE

\* RemoveVSMB's test "share.refCount > 0".
RefPositive(n) == n # 0

NoRequest == [RequestType |-> "None"]

\* System.Modify as the utility VM calls it (uvm.Modify): the host's answer,
\* or ErrAlreadyClosed on a closed handle.
SystemModify(h, request, hostErr) ==
    IF h = 0 THEN ErrAlreadyClosed ELSE hostErr

\* uvm.Modify on the utility VM's open compute system.
Modify(request, hostErr) == SystemModify(1, request, hostErr)

(***************************************************************************)
(* VSMB shares (src/uvm/vsmb.go).                                          *)
(***************************************************************************)
ZeroShare == [name |-> "", guestRequest |-> "", refCount |-> 0]

\* The run-time panic of a write to a map that was never made.
PanicNilMap == "panic: assignment to entry in nil map"

findVSMBShare(shares, hostPath) ==
    IF hostPath \in DOMAIN shares
    THEN [share |-> shares[hostPath], err |-> Nil]
    ELSE [share |-> ZeroShare, err |-> ErrNotAttached]

GuestPath(share) ==
    "\\\\?\\VMSMB\\VSMB-{dcc079ae-60ba-4d07-847c-3493609c0870}\\" \o share.name

\* shares with hostPath mapped to share.
PutShare(shares, hostPath, share) ==
    [p \in DOMAIN shares \cup {hostPath} |->
        IF p = hostPath THEN share ELSE shares[p]]

\* delete(shares, hostPath)
DeleteShare(shares, hostPath) ==
    [p \in DOMAIN shares \ {hostPath} |-> shares[p]]

\* AddVSMB that records the new share before it asks the host and keeps it
\* when the host refuses.
AddVSMBResultKeepsFailed(nilMap, shares, counter, hostPath, guestRequest, options, hostErr) ==
    IF hostPath \in DOMAIN shares
    THEN [shares |-> PutShare(shares, hostPath,
                        [shares[hostPath] EXCEPT !.refCount = IncRef(@)]),
          counter |-> counter, modify |-> NoRequest, err |-> Nil]
    ELSE LET shareName == "s" \o FormatUint(counter + 1, 16)
             modification ==
                 [RequestType |-> "Add",
                  Settings |-> [Name |-> shareName, Options |-> options,
                                Path |-> hostPath],
                  ResourcePath |-> "VirtualMachine/Devices/VirtualSmb/Shares"]
         IN [shares |-> PutShare(shares, hostPath,
                            [name |-> shareName, guestRequest |-> guestRequest,
                             refCount |-> IF hostErr = Nil THEN 1 ELSE 0]),
             counter |-> counter + 1, modify |-> modification,
             err |-> Modify(modification, hostErr)]

\* AddVSMB that names the new share without advancing the counter.
NextShareCounterSame(counter) == counter

\* uvm.vsmbCounter++ before the share is named.
NextShareCounter(counter) == counter + 1

\* AddVSMB past the operating-system test: the ledger, the counter, the
\* request sent to the host and the error returned.  A nil map reads as an
\* empty one, and the assignment that records the new share panics on it:
\* the counter has gone up and the host has added the share, nothing is
\* stored and the call does not return.
AddVSMBResult(nilMap, shares, counter, hostPath, guestRequest, options, hostErr) ==
    LET found == findVSMBShare(shares, hostPath) IN
    IF found.err = ErrNotAttached
    THEN LET c == NextShareCounter(counter)
             shareName == "s" \o FormatUint(c, 16)
             modification ==
                 [RequestType |-> "Add",
                  Settings |-> [Name |-> shareName, Options |-> options,
                                Path |-> hostPath],
                  ResourcePath |-> "VirtualMachine/Devices/VirtualSmb/Shares"]
             err == Modify(modification, hostErr)
         IN IF err # Nil
            THEN [shares |-> shares, counter |-> c,
                  modify |-> modification, err |-> err]
            ELSE IF nilMap
            THEN [shares |-> shares, counter |-> c,
                  modify |-> modification, err |-> PanicNilMap]
            ELSE [shares |-> PutShare(shares, hostPath,
                                 [name |-> shareName,
                                  guestRequest |-> guestRequest,
                                  refCount |-> IncRef(0)]),
                  counter |-> c, modify |-> modification, err |-> Nil]
    ELSE [shares |-> PutShare(shares, hostPath,
                        [found.share EXCEPT !.refCount = IncRef(@)]),
          counter |-> counter, modify |-> NoRequest, err |-> Nil]

\* RemoveVSMB past the operating-system test.
RemoveVSMBResult(shares, hostPath, hostErr) ==
    LET found == findVSMBShare(shares, hostPath) IN
    IF found.err # Nil
    THEN [shares |-> shares, modify |-> NoRequest, err |-> "errVSMBNotPresent"]
    ELSE LET share == [found.share EXCEPT !.refCount = DecRef(@)]
             decremented == PutShare(shares, hostPath, share)
         IN IF RefPositive(share.refCount)
            THEN [shares |-> decremented, modify |-> NoRequest, err |-> Nil]
            ELSE LET modification ==
                         [RequestType |-> "Remove",
                          Settings |-> [Name |-> share.name],
                          ResourcePath |->
                              "VirtualMachine/Devices/VirtualSmb/Shares"]
                     err == Modify(modification, hostErr)
                 IN IF err # Nil
                    THEN [shares |-> decremented, modify |-> modification,
                          err |-> "errVSMBRemoveFailed"]
                    ELSE [shares |-> DeleteShare(decremented, hostPath),
                          modify |-> modification, err |-> Nil]

\* GetVSMBUvmPath without its test of the empty path.
GetVSMBUvmPathResultNoEmptyTest(shares, hostPath) ==
    LET found == findVSMBShare(shares, hostPath) IN
    IF found.err # Nil
    THEN [path |-> "", err |-> found.err]
    ELSE [path |-> GuestPath(found.share), err |-> Nil]

\* GetVSMBUvmPath: the guest path and the error.
GetVSMBUvmPathResult(shares, hostPath) ==
    IF hostPath = ""
    THEN [path |-> "", err |-> "errNoHostPath"]
    ELSE LET found == findVSMBShare(shares, hostPath) IN
         IF found.err # Nil
         THEN [path |-> "", err |-> found.err]
         ELSE [path |-> GuestPath(found.share), err |-> Nil]

(***************************************************************************)
(* VPMEM devices (src/unnamed/part_001).                                   *)
(***************************************************************************)
Slots == 0 .. MaxVPMEM - 1

\* vpmemInfo{}
ZeroVPMEM == [hostPath |-> "", uvmPath |-> "", refCount |-> 0]

\* The least slot index of a non-empty set: what a range loop meets first.
FirstOf(indices) == CHOOSE i \in indices : \A j \in indices : i <= j

\* allocateVPMEM without its test of the slot: the first slot, free or not.
allocateVPMEMAnySlot(devices, hostPath) ==
    [deviceNumber |-> 0, err |-> Nil]

\* allocateVPMEM scanning from the top: the last free slot.
allocateVPMEMLastFit(devices, hostPath) ==
    LET free == {i \in Slots : devices[i].hostPath = ""} IN
    IF free = {}
    THEN [deviceNumber |-> 0, err |-> "errNoFreeVPMEM"]
    ELSE [deviceNumber |-> CHOOSE i \in free : \A j \in free : i >= j,
          err |-> Nil]

\* allocateVPMEM that hands out slot 0 again when no slot is free.
allocateVPMEMFullReusesFirst(devices, hostPath) ==
    LET free == {i \in Slots : devices[i].hostPath = ""} IN
    [deviceNumber |-> IF free = {} THEN 0 ELSE FirstOf(free), err |-> Nil]

\* allocateVPMEM: the first slot whose hostPath is empty.  The loop
\* variable is a copy of the slot, so the table itself is not written.
allocateVPMEM(devices, hostPath) ==
    LET free == {i \in Slots : devices[i].hostPath = ""} IN
    IF free = {}
    THEN [deviceNumber |-> 0, err |-> "errNoFreeVPMEM"]
    ELSE [deviceNumber |-> FirstOf(free), err |-> Nil]

\* findVPMEMDevice that returns the slot without its guest path.
findVPMEMDeviceWithoutPath(devices, findThisHostPath) ==
    LET hit == {i \in Slots : devices[i].hostPath = findThisHostPath} IN
    IF hit = {}
    THEN [deviceNumber |-> 0, uvmPath |-> "", err |-> "errVPMEMNotAttached"]
    ELSE [deviceNumber |-> FirstOf(hit), uvmPath |-> "", err |-> Nil]

\* findVPMEMDevice: the first slot whose hostPath is findThisHostPath.
findVPMEMDevice(devices, findThisHostPath) ==
    LET hit == {i \in Slots : devices[i].hostPath = findThisHostPath} IN
    IF hit = {}
    THEN [deviceNumber |-> 0, uvmPath |-> "", err |-> "errVPMEMNotAttached"]
    ELSE [deviceNumber |-> FirstOf(hit),
          uvmPath |-> devices[FirstOf(hit)].uvmPath, err |-> Nil]

\* AddVPMEM past the operating-system test: the table, the values returned
\* and the request sent to the host.
AddVPMEMResult(devices, hostPath, uvmPath, expose, hostErr) ==
    LET found == findVPMEMDevice(devices, hostPath) IN
    IF found.err # Nil
    THEN LET alloc == allocateVPMEM(devices, hostPath)
             deviceNumber == alloc.deviceNumber
             mapped == expose \/ uvmPath # ""
             path == IF mapped /\ uvmPath = ""
                     THEN "/tmp/v" \o Itoa(deviceNumber) ELSE uvmPath
             modification ==
                 [RequestType |-> "Add",
                  ResourceType |-> "VPMemDevice",
                  Settings |-> [Device |-> Itoa(deviceNumber),
                                HostPath |-> hostPath],
                  ResourceUri |-> "virtualmachine/devices/virtualpmemdevices/"
                                      \o Itoa(deviceNumber),
                  HostedSettings |->
                      IF mapped
                      THEN [DeviceNumber |-> deviceNumber, MountPath |-> path]
                      ELSE [Unset |-> TRUE]]
             err == Modify(modification, hostErr)
         IN IF alloc.err # Nil
            THEN [devices |-> devices, deviceNumber |-> 0, uvmPath |-> "",
                  modify |-> NoRequest, err |-> alloc.err]
            ELSE IF err # Nil
            THEN [devices |-> [devices EXCEPT ![deviceNumber] = ZeroVPMEM],
                  deviceNumber |-> 0, uvmPath |-> "",
                  modify |-> modification, err |-> "errVPMEMAddFailed"]
            ELSE [devices |-> [devices EXCEPT ![deviceNumber] =
                                   [hostPath |-> hostPath, uvmPath |-> path,
                                    refCount |-> 1]],
                  deviceNumber |-> deviceNumber, uvmPath |-> path,
                  modify |-> modification, err |-> Nil]
    ELSE [devices |-> [devices EXCEPT ![found.deviceNumber] =
                           [hostPath |-> hostPath, uvmPath |-> found.uvmPath,
                            refCount |-> IncRef(devices[found.deviceNumber].refCount)]],
          deviceNumber |-> found.deviceNumber, uvmPath |-> found.uvmPath,
          modify |-> NoRequest, err |-> Nil]

\* removeVPMEM's test one off: refCount == 0.
IsLastRefOffByOne(n) == n = 0

\* removeVPMEM's test for the last reference: refCount == 1.
IsLastRef(n) == n = 1

\* removeVPMEM: the table, the request sent to the host and the error.
removeVPMEM(devices, hostPath, uvmPath, deviceNumber, hostErr) ==
    IF IsLastRef(devices[deviceNumber].refCount)
    THEN LET modification ==
                 [RequestType |-> "Remove",
                  ResourceType |-> "VPMemDevice",
                  ResourceUri |-> "virtualmachine/devices/virtualpmemdevices/"
                                      \o Itoa(deviceNumber),
                  HostedSettings |-> [DeviceNumber |-> deviceNumber,
                                      MountPath |-> uvmPath]]
             err == Modify(modification, hostErr)
         IN IF err # Nil
            THEN [devices |-> devices, modify |-> modification, err |-> err]
            ELSE [devices |-> [devices EXCEPT ![deviceNumber] = ZeroVPMEM],
                  modify |-> modification, err |-> Nil]
    ELSE [devices |-> [devices EXCEPT ![deviceNumber].refCount = DecRef(@)],
          modify |-> NoRequest, err |-> Nil]

\* RemoveVPMEM past the operating-system test.
RemoveVPMEMResult(devices, hostPath, hostErr) ==
    LET found == findVPMEMDevice(devices, hostPath) IN
    IF found.err # Nil
    THEN [devices |-> devices, modify |-> NoRequest,
          err |-> "errVPMEMCannotRemove"]
    ELSE LET res == removeVPMEM(devices, hostPath, found.uvmPath,
                                found.deviceNumber, hostErr)
         IN IF res.err # Nil
            THEN [res EXCEPT !.err = "errVPMEMRemoveFailed"]
            ELSE res

(***************************************************************************)
(* Observation of the utility VM's calls.  For each host path, run is the  *)
(* sequence of calls since the path was last added while not attached:    *)
(* successful adds ("adding"), then successful removes ("removing"), with  *)
(* d the adds not yet matched by a remove, a the host Add requests and r   *)
(* the host Remove requests these calls issued.  A run is "void" once a    *)
(* call of it has failed or an add has followed a remove; a run that is    *)
(* over leaves the path "idle".                                            *)
(***************************************************************************)
IdleRun == [st |-> "idle", n |-> 0, d |-> 0, a |-> 0, r |-> 0, slot |-> 0]
VoidRun == [st |-> "void", n |-> 0, d |-> 0, a |-> 0, r |-> 0, slot |-> 0]

Issued(modify, requestType) == IF modify.RequestType = requestType THEN 1 ELSE 0

\* fresh: the path was not attached when the add was called; slot: where
\* the add attached it (0 for a share); n counts the adds of the run.
RunAfterAdd(rn, fresh, attachedAfter, err, modify, slot) ==
    IF err = Nil /\ fresh
    THEN [st |-> "adding", n |-> 1, d |-> 1, a |-> Issued(modify, "Add"),
          r |-> Issued(modify, "Remove"), slot |-> slot]
    ELSE IF err = Nil /\ rn.st = "adding"
    THEN [rn EXCEPT !.n = @ + 1, !.d = @ + 1,
                    !.a = @ + Issued(modify, "Add"),
                    !.r = @ + Issued(modify, "Remove")]
    ELSE IF attachedAfter THEN VoidRun ELSE IdleRun

RunAfterRemove(rn, attachedAfter, err, modify) ==
    IF err = Nil /\ rn.st \in {"adding", "removing"} /\ rn.d > 0
    THEN [rn EXCEPT !.st = "removing", !.d = @ - 1,
                    !.a = @ + Issued(modify, "Add"),
                    !.r = @ + Issued(modify, "Remove")]
    ELSE IF attachedAfter THEN VoidRun ELSE IdleRun

\* What ends a run: an error the operation returned.  The panic of AddVSMB
\* is none: the host had accepted the request.
Refused(err) == IF err = PanicNilMap THEN Nil ELSE err

Returned(op, hostPath, err, modify, deviceNumber, path) ==
    [op |-> op, hostPath |-> hostPath, err |-> err, modify |-> modify,
     deviceNumber |-> deviceNumber, path |-> path]

\* The host gives an answer only to a request that is sent: a call that
\* sends none is enumerated once, not once per answer.
Asked(modify, hostErr) == modify = NoRequest => hostErr = Nil

\* The model's bounds on the counts a call may leave behind.
SharesInBounds(shares) ==
    \A p \in DOMAIN shares :
        shares[p].refCount <= MaxRef /\ shares[p].refCount >= -MaxWrap

\* A free slot's count moves only through calls that pass the empty path;
\* the distance of such counts from 0, summed over the free slots of 0..i.
RECURSIVE FreeSlotCounts(_, _)
FreeSlotCounts(devices, i) ==
    IF i < 0 THEN 0
    ELSE FreeSlotCounts(devices, i - 1) +
         ( IF devices[i].hostPath # "" THEN 0
           ELSE IF devices[i].refCount < 0 THEN 0 - devices[i].refCount
           ELSE devices[i].refCount )

DevicesInBounds(devices) ==
    /\ \A i \in Slots :
           devices[i].refCount <= MaxRef /\ devices[i].refCount >= -MaxWrap
    /\ FreeSlotCounts(devices, MaxVPMEM - 1) <= MaxWrap

(***************************************************************************)
(* The utility VM's operations, each called alone: it runs under uvm.m    *)
(* from its lookup to its return and no other call is in flight, so each   *)
(* is one step.  SpecLedger takes them apart for concurrent callers.       *)
(***************************************************************************)
AddVSMB(hostPath, guestRequest, options, hostErr) ==
    IF operatingSystem # "windows"
    THEN /\ hostErr = Nil
         /\ last' = Returned("AddVSMB", hostPath, errNotSupported, NoRequest, 0, "")
         /\ UNCHANGED <<operatingSystem, vsmbSharesNil, vsmbShares, vsmbCounter, vpmemDevices, run, live, notUvmVars>>
    ELSE LET res == AddVSMBResult(vsmbSharesNil, vsmbShares, vsmbCounter, hostPath,
                                  guestRequest, options, hostErr)
         IN /\ Asked(res.modify, hostErr)
            /\ res.counter <= MaxCounter
            /\ SharesInBounds(res.shares)
            /\ vsmbShares' = res.shares
            /\ vsmbCounter' = res.counter
            /\ run' = [run EXCEPT ![hostPath] =
                          RunAfterAdd(@, hostPath \notin DOMAIN vsmbShares,
                                      hostPath \in DOMAIN res.shares,
                                      Refused(res.err), res.modify, 0)]
            /\ last' = Returned("AddVSMB", hostPath, res.err, res.modify, 0, "")
            /\ UNCHANGED <<operatingSystem, vsmbSharesNil, vpmemDevices, live, notUvmVars>>

RemoveVSMB(hostPath, hostErr) ==
    IF operatingSystem # "windows"
    THEN /\ hostErr = Nil
         /\ last' = Returned("RemoveVSMB", hostPath, errNotSupported, NoRequest, 0, "")
         /\ UNCHANGED <<operatingSystem, vsmbSharesNil, vsmbShares, vsmbCounter, vpmemDevices, run, live, notUvmVars>>
    ELSE LET res == RemoveVSMBResult(vsmbShares, hostPath, hostErr)
         IN /\ Asked(res.modify, hostErr)
            /\ SharesInBounds(res.shares)
            /\ vsmbShares' = res.shares
            /\ run' = [run EXCEPT ![hostPath] =
                          RunAfterRemove(@, hostPath \in DOMAIN res.shares,
                                         res.err, res.modify)]
            /\ last' = Returned("RemoveVSMB", hostPath, res.err, res.modify, 0, "")
            /\ UNCHANGED <<operatingSystem, vsmbSharesNil, vsmbCounter, vpmemDevices, live, notUvmVars>>

GetVSMBUvmPath(hostPath) ==
    LET res == GetVSMBUvmPathResult(vsmbShares, hostPath)
    IN /\ last' = Returned("GetVSMBUvmPath", hostPath, res.err, NoRequest, 0, res.path)
       /\ UNCHANGED <<operatingSystem, vsmbSharesNil, vsmbShares, vsmbCounter, vpmemDevices, run, live, notUvmVars>>

AddVPMEM(hostPath, uvmPath, expose, hostErr) ==
    IF operatingSystem # "linux"
    THEN /\ hostErr = Nil
         /\ last' = Returned("AddVPMEM", hostPath, errNotSupported, NoRequest, 0, "")
         /\ UNCHANGED <<operatingSystem, vsmbSharesNil, vsmbShares, vsmbCounter, vpmemDevices, run, live, notUvmVars>>
    ELSE LET res == AddVPMEMResult(vpmemDevices, hostPath, uvmPath, expose, hostErr)
         IN /\ Asked(res.modify, hostErr)
            /\ DevicesInBounds(res.devices)
            /\ vpmemDevices' = res.devices
            /\ run' = [run EXCEPT ![hostPath] =
                          RunAfterAdd(@, findVPMEMDevice(vpmemDevices, hostPath).err # Nil,
                                      findVPMEMDevice(res.devices, hostPath).err = Nil,
                                      res.err, res.modify, res.deviceNumber)]
            /\ live' = IF res.err = Nil /\ hostPath # ""
                       THEN [live EXCEPT ![hostPath] = @ + 1] ELSE live
            /\ last' = Returned("AddVPMEM", hostPath, res.err, res.modify,
                                res.deviceNumber, res.uvmPath)
            /\ UNCHANGED <<operatingSystem, vsmbSharesNil, vsmbShares, vsmbCounter, notUvmVars>>

RemoveVPMEM(hostPath, hostErr) ==
    IF operatingSystem # "linux"
    THEN /\ hostErr = Nil
         /\ last' = Returned("RemoveVPMEM", hostPath, errNotSupported, NoRequest, 0, "")
         /\ UNCHANGED <<operatingSystem, vsmbSharesNil, vsmbShares, vsmbCounter, vpmemDevices, run, live, notUvmVars>>
    ELSE LET res == RemoveVPMEMResult(vpmemDevices, hostPath, hostErr)
             found == findVPMEMDevice(vpmemDevices, hostPath)
         IN /\ Asked(res.modify, hostErr)
            /\ DevicesInBounds(res.devices)
            /\ vpmemDevices' = res.devices
            /\ run' = [run EXCEPT ![hostPath] =
                          RunAfterRemove(@, findVPMEMDevice(res.devices, hostPath).err = Nil,
                                         res.err, res.modify)]
            /\ live' = IF res.err = Nil /\ hostPath # ""
                       THEN [live EXCEPT ![hostPath] = @ - 1] ELSE live
            /\ last' = Returned("RemoveVPMEM", hostPath, res.err, res.modify,
                                found.deviceNumber, found.uvmPath)
            /\ UNCHANGED <<operatingSystem, vsmbSharesNil, vsmbShares, vsmbCounter, notUvmVars>>

(***************************************************************************)
(* The start throttle (src/hcs/process.go, currentContainerStarts) and     *)
(* System.Start.                                                           *)
(***************************************************************************)
ErrTimeout == "ErrTimeout"
ErrVmcomputeOperationPending == "ErrVmcomputeOperationPending"
ErrVmcomputeUnexpectedExit == "ErrVmcomputeUnexpectedExit"
ErrSyntax == "ErrSyntax"

IsDigit(c) == \E i \in 1 .. 10 : Digits[i] = c
DigitValue(c) == (CHOOSE i \in 1 .. 10 : Digits[i] = c) - 1

RECURSIVE DecimalValue(_)
DecimalValue(cs) ==
    IF cs = <<>> THEN 0
    ELSE 10 * DecimalValue(SubSeq(cs, 1, Len(cs) - 1)) + DigitValue(cs[Len(cs)])

\* strconv.Atoi on a string given as its characters: an optional sign, then
\* one or more decimal digits; anything else is a syntax error.
Atoi(cs) ==
    LET signed == cs # <<>> /\ cs[1] \in {"+", "-"}
        digits == IF signed THEN Tail(cs) ELSE cs
    IN IF digits = <<>> \/ \E i \in 1 .. Len(digits) : ~IsDigit(digits[i])
       THEN [n |-> 0, err |-> ErrSyntax]
       ELSE [n |-> IF signed /\ cs[1] = "-"
                   THEN 0 - DecimalValue(digits) ELSE DecimalValue(digits),
             err |-> Nil]

\* init(): maxParallel stays 0 unless the variable is set to a number >= 0.
MaxParallelFromEnv(mpsS) ==
    IF Len(mpsS) > 0
    THEN LET mps == Atoi(mpsS)
         IN IF mps.err # Nil \/ mps.n < 0 THEN 0 ELSE mps.n
    ELSE 0

\* Values of HCSSHIM_MAX_PARALLEL_START.
EnvInputs ==
    { <<>>, <<"0">>, <<"1">>, <<"2">>, <<"+", "2">>, <<"0", "1">>,
      <<"-", "1">>, <<"-">>, <<"x">>, <<"1", "x">> }

Starters == 1 .. MaxStarters

\* What the host answers to hcsStartComputeSystem, and what waiting for the
\* "start completed" notification yields.
HcsStartResults == {Nil, ErrVmcomputeOperationPending, HcsError}
StartNotifications == {Nil, ErrTimeout, ErrVmcomputeUnexpectedExit}

\* makeSystemError: the error wrapped with the operation.
NilError == [Op |-> "", Err |-> Nil]
makeSystemError(op, err) == [Op |-> op, Err |-> err]
IsTimeout(e) == e.Err = ErrTimeout

\* The admission test with "<=" for "<".
AdmitsOneTooMany(n, max) == n <= max

\* The admission test of the throttle loop: inProgress < maxParallel.
Admits(n, max) == n < max

\* The host requests Start makes after the start request, given how the
\* wait ended: none, it returns the error.
StartCleanup(err) == <<>>

\* handleLock.RLock() and Lock() can be taken.
CanRLock == handleLock.w = <<>>
CanLock == handleLock.w = <<>> /\ handleLock.r = {}
\* A deferred unlock that is never run.
UnlockForgotten(x) == handleLock

Unlocked(x) ==
    [w |-> IF handleLock.w = x THEN <<>> ELSE handleLock.w, r |-> handleLock.r \ {x}]

\* A caller of Start as a holder of the handle lock.
StartCaller(t) == <<"Start", t>>

\* The throttle test with ">=" for ">".
ThrottledAtZero(max) == max >= 0

\* Start's test "currentContainerStarts.maxParallel > 0": the throttle loop
\* and the deferred release run only when it holds.
Throttled(max) == max > 0

IdleStarter == [pc |-> "idle", err |-> Nil, requests |-> <<>>, ret |-> NilError]

\* Start up to the throttle, under handleLock.RLock(): a closed handle
\* returns ErrAlreadyClosed; the throttle loop is entered only when
\* maxParallel > 0.
StartCall(t, handle) ==
    /\ starter[t].pc \in {"idle", "done"}
    /\ CanRLock
    /\ handleLock' = IF handle = 0 THEN handleLock
                     ELSE [handleLock EXCEPT !.r = @ \cup {StartCaller(t)}]
    /\ starter' = [starter EXCEPT ![t] =
           IF handle = 0
           THEN [pc |-> "done", err |-> ErrAlreadyClosed, requests |-> <<>>,
                 ret |-> makeSystemError("Start", ErrAlreadyClosed)]
           ELSE [pc |-> IF Throttled(maxParallel) THEN "lock" ELSE "request",
                 err |-> Nil, requests |-> <<>>, ret |-> NilError]]
    /\ UNCHANGED <<maxParallel, inProgress, startsMutex, uvmVars, ledgerVars, storeVars, dispatchVars,
                   obj, callbackMap, nextCallback, caller, waiter, creator, hist>>

\* currentContainerStarts.Lock() at the top of the loop.
LockStarts(t) ==
    /\ starter[t].pc = "lock"
    /\ startsMutex = 0
    /\ startsMutex' = t
    /\ starter' = [starter EXCEPT ![t].pc = "check"]
    /\ UNCHANGED <<maxParallel, inProgress, notStartVars>>

\* A loop that never takes the unlock-and-sleep branch.
GateFullNever(n, max) == FALSE

\* The second test of the loop body: inProgress == maxParallel.
GateFull(n, max) == n = max

\* The body of the loop, under the mutex: admit, or unlock and sleep when
\* full; when inProgress is above maxParallel neither branch runs and the
\* loop comes back to Lock() with the mutex still held.
CheckStarts(t) ==
    /\ starter[t].pc = "check"
    /\ startsMutex = t
    /\ IF Admits(inProgress, maxParallel)
       THEN /\ inProgress' = inProgress + 1
            /\ startsMutex' = 0
            /\ starter' = [starter EXCEPT ![t].pc = "request"]
       ELSE IF GateFull(inProgress, maxParallel)
       THEN /\ startsMutex' = 0
            /\ starter' = [starter EXCEPT ![t].pc = "sleep"]
            /\ UNCHANGED inProgress
       ELSE /\ starter' = [starter EXCEPT ![t].pc = "lock"]
            /\ UNCHANGED <<inProgress, startsMutex>>
    /\ UNCHANGED <<maxParallel, notStartVars>>

\* time.Sleep(100 * time.Millisecond) is over.
WakeStarter(t) ==
    /\ starter[t].pc = "sleep"
    /\ starter' = [starter EXCEPT ![t].pc = "lock"]
    /\ UNCHANGED <<maxParallel, inProgress, startsMutex, notStartVars>>

\* Where Start goes when its body is over: the deferred functions run last
\* registered first, so the release of the slot, registered only when
\* maxParallel > 0, runs before the deferred RUnlock of the handle lock.
StartDeferred(max) == IF Throttled(max) THEN "release" ELSE "return"

\* hcsStartComputeSystem and the first half of processAsyncHcsResult: only a
\* pending result waits for the notification.
RequestStart(t, hostErr) ==
    /\ starter[t].pc = "request"
    /\ starter' = [starter EXCEPT
           ![t].requests = Append(@, "Start"),
           ![t].err = IF hostErr = ErrVmcomputeOperationPending THEN Nil ELSE hostErr,
           ![t].pc = IF hostErr = ErrVmcomputeOperationPending
                     THEN "wait" ELSE StartDeferred(maxParallel)]
    /\ UNCHANGED <<maxParallel, inProgress, startsMutex, notStartVars>>

\* waitForNotification returns: the notification, the timeout, or the exit
\* of the system.
StartNotified(t, waitErr) ==
    /\ starter[t].pc = "wait"
    /\ starter' = [starter EXCEPT
           ![t].err = waitErr,
           ![t].requests = @ \o StartCleanup(waitErr),
           ![t].pc = StartDeferred(maxParallel)]
    /\ UNCHANGED <<maxParallel, inProgress, startsMutex, notStartVars>>

\* A deferred function that gives no slot back.
ReleasedNever(n) == n

\* The deferred function of Start: currentContainerStarts.inProgress--.
Released(n) == n - 1

\* The deferred function of Start that gives the slot back, under the
\* throttle's mutex: Lock, inProgress--, Unlock.  The caller is still inside
\* Start and still holds the handle lock.
ReleaseStart(t) ==
    /\ starter[t].pc = "release"
    /\ startsMutex = 0
    /\ inProgress' = Released(inProgress)
    /\ starter' = [starter EXCEPT ![t].pc = "return"]
    /\ UNCHANGED <<maxParallel, startsMutex, notStartVars>>

\* Start returns: the deferred RUnlock releases the handle lock, then the
\* result is delivered.
ReturnStart(t) ==
    /\ starter[t].pc = "return"
    /\ starter' = [starter EXCEPT
           ![t].pc = "done",
           ![t].ret = IF starter[t].err = Nil THEN NilError
                      ELSE makeSystemError("Start", starter[t].err)]
    /\ handleLock' = Unlocked(StartCaller(t))
    /\ UNCHANGED <<maxParallel, inProgress, startsMutex, uvmVars, ledgerVars, storeVars,
                   dispatchVars, obj, callbackMap, nextCallback, caller, waiter,
                   creator, hist>>

(***************************************************************************)
(* One System or Process after its creation, and the goroutines that close *)
(* its exit-wait signal: waitBackground, the force-unblock timers started  *)
(* by Signal and Kill, and Close; and the callers of Wait.                 *)
(* An error is a record: Op is the operation makeSystemError or            *)
(* makeProcessError names ("" for an unwrapped error), Err its cause.      *)
(***************************************************************************)
ErrHandleClose == "ErrHandleClose"
ErrVmcomputeOperationInvalidState == "ErrVmcomputeOperationInvalidState"
ErrElementNotFound == "ErrElementNotFound"
ErrComputeSystemDoesNotExist == "ErrComputeSystemDoesNotExist"
ErrMarshal == "ErrMarshal"
ErrUnmarshal == "ErrUnmarshal"
ErrInvalidProcessState == "ErrInvalidProcessState"
ErrVmcomputeAlreadyStopped == "ErrVmcomputeAlreadyStopped"

Raw(err) == [Op |-> "", Err |-> err]
makeProcessError(op, err) == [Op |-> op, Err |-> err]

Watcher == <<"waitBackground", 0>>
Timers == {<<"timer", i>> : i \in 1 .. MaxTimers}
Closers == {<<"Close", i>> : i \in 1 .. MaxClosers}
\* One more caller of Close, for the specification of concurrent Closes.
ConcurrentClosers == {<<"Close", i>> : i \in 1 .. MaxClosers + 1}
Callers == {Watcher} \cup Timers \cup ConcurrentClosers
\* A caller of System.Pause or System.Resume, as a goroutine and as a
\* holder of the handle lock.
PauseCaller(op) == <<op, 1>>
\* The goroutines whose position the model keeps in caller.
Goroutines == Callers \cup {PauseCaller(op) : op \in {"Pause", "Resume"}}
Waiters == 1 .. MaxWaiters

\* What the host answers, and what a notification carries.
HcsResults == {Nil, HcsError}
ExitNotifications == {Nil, ErrVmcomputeUnexpectedExit, HcsError}
SignalResults ==
    {Nil, ErrVmcomputeOperationInvalidState, ErrComputeSystemDoesNotExist,
     ErrElementNotFound, HcsError}
\* hcsGetProcessProperties and json.Unmarshal of its document: the host's
\* error, a document that does not parse, or the process status.
PropertiesResults ==
    { [err |-> HcsError, unmarshal |-> Nil, LastWaitResult |-> 0, ExitCode |-> 0],
      [err |-> Nil, unmarshal |-> ErrUnmarshal, LastWaitResult |-> 0, ExitCode |-> 0],
      [err |-> Nil, unmarshal |-> Nil, LastWaitResult |-> 1, ExitCode |-> 0],
      [err |-> Nil, unmarshal |-> Nil, LastWaitResult |-> 0, ExitCode |-> 0],
      [err |-> Nil, unmarshal |-> Nil, LastWaitResult |-> 0, ExitCode |-> 3] }

\* sync.Once with no memory: every caller of Do runs the function.
OnceAlwaysRuns(o) == TRUE

\* sync.Once.Do runs the function when done is still 0 (read under the
\* Once's mutex, which a caller running the function holds).
OnceAdmits(o) == o = "new"

\* A goroutine that may call closedWaitOnce.Do: where it is, the outcome it
\* would write, what it returned.
IdleCaller(pc) == [pc |-> pc, err |-> NilError, exitCode |-> 0, ret |-> NilError]


\* waitBackground that records the error as waitForNotification returned it.
SystemWaitErrorUnwrapped(err) ==
    IF err \in {Nil, ErrVmcomputeUnexpectedExit} THEN NilError ELSE Raw(err)

\* System.waitBackground's switch on the result of waitForNotification.
SystemWaitError(err) ==
    IF err \in {Nil, ErrVmcomputeUnexpectedExit} THEN NilError
    ELSE makeSystemError("Wait", err)

\* waitBackground: waitForNotification(callbackNumber, exited, nil) returns,
\* with what the notification carries or, once the channels are closed,
\* ErrHandleClose.  A System goes on to Do; so does a Process on an error,
\* while on nil it takes the read lock to fetch the exit code.
WatcherNotified(err) ==
    /\ caller[Watcher].pc = "waiting"
    /\ IF obj.channels = "closed" THEN err = ErrHandleClose
       ELSE err \in ExitNotifications
    /\ IF obj.kind = "system"
       THEN /\ obj' = IF err = ErrVmcomputeUnexpectedExit
                      THEN [obj EXCEPT !.exitError = makeSystemError("Wait", err)]
                      ELSE obj
            /\ caller' = [caller EXCEPT ![Watcher].pc = "do",
                                        ![Watcher].err = SystemWaitError(err)]
       ELSE /\ obj' = obj
            /\ caller' = [caller EXCEPT
                   ![Watcher].pc = IF err = Nil THEN "rlock" ELSE "do",
                   ![Watcher].exitCode = 0 - 1,
                   ![Watcher].err = IF err = Nil THEN NilError
                                    ELSE makeProcessError("waitBackground", err)]
    /\ UNCHANGED <<handleLock, callbackMap, nextCallback, waiter, creator, hist, notObjVars>>

\* Process.waitBackground: process.handleLock.RLock().
WatcherRLock ==
    /\ caller[Watcher].pc = "rlock"
    /\ CanRLock
    /\ handleLock' = [handleLock EXCEPT !.r = @ \cup {Watcher}]
    /\ caller' = [caller EXCEPT ![Watcher].pc = "properties"]
    /\ UNCHANGED <<obj, callbackMap, nextCallback, waiter, creator, hist, notObjVars>>

\* Process.waitBackground under the read lock: with the handle still open,
\* the exit code is read from the process properties; the host's error and
\* the error of json.Unmarshal are wrapped, and the exit code stays -1
\* unless the document parses with LastWaitResult 0.
WatcherProperties(res) ==
    /\ caller[Watcher].pc = "properties"
    /\ IF obj.handle = 0
       THEN /\ res.err = Nil /\ res.unmarshal = Nil
            /\ res.LastWaitResult = 0 /\ res.ExitCode = 0
            /\ caller' = [caller EXCEPT ![Watcher].pc = "do"]
       ELSE caller' = [caller EXCEPT
                ![Watcher].pc = "do",
                ![Watcher].err = IF res.err # Nil
                                 THEN makeProcessError("waitBackground", res.err)
                                 ELSE IF res.unmarshal # Nil
                                 THEN makeProcessError("waitBackground", res.unmarshal)
                                 ELSE NilError,
                ![Watcher].exitCode =
                    IF res.err = Nil /\ res.unmarshal = Nil /\ res.LastWaitResult = 0
                    THEN res.ExitCode ELSE 0 - 1]
    /\ UNCHANGED <<obj, handleLock, callbackMap, nextCallback, waiter, creator, hist, notObjVars>>

\* processSignalResult: a "gone" answer with the wait signal still open
\* starts a goroutine that force-unblocks the waits after a second, with
\* the answer as the wait error.
\* A narrower class of "gone" answers than the code's.
IsGoneOnlyNotFound(err) == err = ErrElementNotFound

IsGone(err) ==
    err \in {ErrVmcomputeOperationInvalidState, ErrComputeSystemDoesNotExist,
             ErrElementNotFound}
processSignalResult(err) ==
    IF IsGone(err) /\ obj.waitBlock = "open"
    THEN \E t \in Timers :
            /\ caller[t].pc = "none"
            /\ \A u \in Timers : u[2] < t[2] => caller[u].pc # "none"
            /\ caller' = [caller EXCEPT ![t] =
                   [pc |-> "sleeping", err |-> Raw(err), exitCode |-> 0 - 1,
                    ret |-> NilError]]
    ELSE UNCHANGED caller

\* The System or Process is in its user's hands: it was not made by a
\* constructor of this model, or the constructor has returned it.
HasObject == creator.pc = "none" \/ (creator.pc = "done" /\ creator.system)

\* processSignalResult that reports a "gone" answer as an error.
processSignalReturnGoneIsError(err) ==
    [delivered |-> err = Nil, err |-> err]

\* What processSignalResult returns: (delivered, err).
processSignalReturn(err) ==
    IF err = Nil THEN [delivered |-> TRUE, err |-> Nil]
    ELSE IF IsGone(err) THEN [delivered |-> FALSE, err |-> Nil]
    ELSE [delivered |-> FALSE, err |-> err]

\* What a call returned, as the caller sees it: the operation, whether the
\* host was asked and what it answered, and the returned values.
Call(op, asked, hostErr, delivered, code, err) ==
    [op |-> op, asked |-> asked, hostErr |-> hostErr,
     delivered |-> delivered, code |-> code, err |-> err]
NoCall == Call("none", FALSE, Nil, FALSE, 0, NilError)
\* The record of the last call is kept only where a specification starts
\* with one (NoCall); elsewhere it stays Unobserved.
Unobserved == [NoCall EXCEPT !.op = "unobserved"]
Observed(call) ==
    IF hist.lastCall = Unobserved THEN hist ELSE [hist EXCEPT !.lastCall = call]

\* The tail shared by Signal and Kill: the host is asked, its answer goes
\* through processSignalResult and a remaining error is wrapped.
SignalOrKill(op, hostErr) ==
    LET r == processSignalReturn(hostErr)
    IN /\ processSignalResult(hostErr)
       /\ hist' = Observed(Call(op, TRUE, hostErr, r.delivered, 0,
                   IF r.err # Nil THEN makeProcessError(op, r.err) ELSE NilError))

\* Process.Signal, under the read lock: a closed handle and options that
\* cannot be marshalled return before the host is asked.
Signal(marshalErr, hostErr) ==
    /\ obj.kind = "process"
    /\ HasObject
    /\ CanRLock
    /\ IF obj.handle = 0
       THEN /\ marshalErr = Nil /\ hostErr = Nil
            /\ hist' = Observed(Call("Signal", FALSE, Nil, FALSE, 0,
                        makeProcessError("Signal", ErrAlreadyClosed)))
            /\ UNCHANGED caller
       ELSE IF marshalErr # Nil
       THEN /\ hostErr = Nil
            /\ hist' = Observed(Call("Signal", FALSE, Nil, FALSE, 0, Raw(marshalErr)))
            /\ UNCHANGED caller
       ELSE SignalOrKill("Signal", hostErr)
    /\ UNCHANGED <<obj, handleLock, callbackMap, nextCallback, waiter, creator, notObjVars>>

\* Process.Kill, under the read lock.
Kill(hostErr) ==
    /\ obj.kind = "process"
    /\ HasObject
    /\ CanRLock
    /\ IF obj.handle = 0
       THEN /\ hostErr = Nil
            /\ hist' = Observed(Call("Kill", FALSE, Nil, FALSE, 0,
                        makeProcessError("Kill", ErrAlreadyClosed)))
            /\ UNCHANGED caller
       ELSE SignalOrKill("Kill", hostErr)
    /\ UNCHANGED <<obj, handleLock, callbackMap, nextCallback, waiter, creator, notObjVars>>

\* ExitCode that does not look at the wait signal.
ExitCodeReturnUnchecked(waitBlock, waitError, exitCode) ==
    [code |-> exitCode, err |-> waitError]

\* What ExitCode returns: with waitBlock closed the wait error and -1, or
\* the exit code; with waitBlock open (the default case of the select) -1
\* and an ErrInvalidProcessState process error.
ExitCodeReturn(waitBlock, waitError, exitCode) ==
    IF waitBlock = "closed"
    THEN IF waitError # NilError THEN [code |-> 0 - 1, err |-> waitError]
         ELSE [code |-> exitCode, err |-> NilError]
    ELSE [code |-> 0 - 1, err |-> makeProcessError("ExitCode", ErrInvalidProcessState)]

\* errors.New("container not exited")
ErrNotExited == "container not exited"

\* ExitError that leaves the separately recorded exit error out.
ExitErrorReturnWaitErrorOnly(waitBlock, waitError, exitError) ==
    IF waitBlock = "closed" THEN waitError ELSE Raw(ErrNotExited)

\* System.ExitError: select on waitBlock; once it is closed the wait error
\* if there is one, else the exit error; while it is open, an error at once.
ExitErrorReturn(waitBlock, waitError, exitError) ==
    IF waitBlock = "closed"
    THEN IF waitError # NilError THEN waitError ELSE exitError
    ELSE Raw(ErrNotExited)

ExitError ==
    /\ obj.kind = "system"
    /\ HasObject
    /\ hist' = Observed(Call("ExitError", FALSE, Nil, FALSE, 0,
                    ExitErrorReturn(obj.waitBlock, obj.waitError, obj.exitError)))
    /\ UNCHANGED <<obj, handleLock, callbackMap, nextCallback, caller, waiter, creator, notObjVars>>

\* Process.ExitCode: takes no lock and waits for nothing.
ExitCode ==
    /\ obj.kind = "process"
    /\ HasObject
    /\ LET r == ExitCodeReturn(obj.waitBlock, obj.waitError, obj.exitCode)
       IN hist' = Observed(Call("ExitCode", FALSE, Nil, FALSE, r.code, r.err))
    /\ UNCHANGED <<obj, handleLock, callbackMap, nextCallback, caller, waiter, creator, notObjVars>>

\* What the host answers to a shutdown or terminate request.
StopResults ==
    {Nil, ErrVmcomputeAlreadyStopped, ErrComputeSystemDoesNotExist,
     ErrVmcomputeOperationPending, HcsError}

\* Shutdown / Terminate that accept only the host's plain success.
IsStopAcceptedOnlyNil(err) == err = Nil

\* The answers Shutdown and Terminate take as success (the empty case of
\* their switch).
IsStopAccepted(err) ==
    err \in {Nil, ErrVmcomputeAlreadyStopped, ErrComputeSystemDoesNotExist,
             ErrVmcomputeOperationPending}

\* Shutdown and Terminate that go to the host whatever the handle.
StopSkippedNever(handle) == FALSE

\* Shutdown and Terminate: "if computeSystem.handle == 0 { return nil }".
StopSkipped(handle) == handle = 0

\* System.Shutdown and System.Terminate, under the read lock: nil on a
\* closed handle; otherwise one request to the host, whose answer is the
\* result; no notification is waited for.
ShutdownOrTerminate(op, hostErr) ==
    /\ obj.kind = "system"
    /\ HasObject
    /\ CanRLock
    /\ IF StopSkipped(obj.handle)
       THEN /\ hostErr = Nil
            /\ hist' = Observed(Call(op, FALSE, Nil, FALSE, 0, NilError))
       ELSE hist' = Observed(Call(op, TRUE, hostErr, FALSE, 0,
                         IF IsStopAccepted(hostErr) THEN NilError
                         ELSE makeSystemError(op, hostErr)))
    /\ UNCHANGED <<obj, handleLock, callbackMap, nextCallback, caller, waiter, creator, notObjVars>>

Shutdown(hostErr) == ShutdownOrTerminate("Shutdown", hostErr)
Terminate(hostErr) == ShutdownOrTerminate("Terminate", hostErr)

\* time.Sleep(time.Second) of a force-unblock goroutine is over.
TimerFires(t) ==
    /\ caller[t].pc = "sleeping"
    /\ caller' = [caller EXCEPT ![t].pc = "do"]
    /\ UNCHANGED <<obj, handleLock, callbackMap, nextCallback, waiter, creator, hist, notObjVars>>

\* makeSystemError / makeProcessError of the object's kind.
makeError(kind, op, err) ==
    IF kind = "system" THEN makeSystemError(op, err) ELSE makeProcessError(op, err)

\* A goroutine that holds the System or Process calls Close, for the first
\* time or again after an earlier call returned.
CloseCall(c) ==
    /\ HasObject
    /\ caller[c].pc \in {"none", "done"}
    /\ caller' = [caller EXCEPT ![c] = IdleCaller("idle")]
    /\ UNCHANGED <<obj, handleLock, callbackMap, nextCallback, waiter, creator, hist, notObjVars>>

\* Close that does not check for a handle already released.
HandleClosedNever(handle) == FALSE

\* "Don't double free this": the handle is 0.
HandleClosed(handle) == handle = 0

\* The stdio streams of a Process: nil, open, closed by one Close() call, or
\* closed and given further Close() calls.
Streams == {"stdin", "stdout", "stderr"}
NoStdio == [st \in Streams |-> "nil"]

\* Close that leaves the stdio streams alone.
CloseStreamSkipped(st) == st

\* if process.stdin != nil { process.stdin.Close() }, and so for the others.
CloseStream(st) ==
    IF st = "nil" THEN "nil" ELSE IF st = "open" THEN "closed" ELSE "closed again"

\* Close: the host closes the handle, the handle field is zeroed; then
\* closedWaitOnce.Do with ErrAlreadyClosed (and exit code -1 for a Process).
CloseHandle(c, hostErr) ==
    /\ caller[c].pc = "unregistered"
    /\ IF hostErr # Nil
       THEN /\ caller' = [caller EXCEPT
                   ![c].pc = "done",
                   ![c].ret = makeError(obj.kind, "Close", hostErr)]
            /\ handleLock' = Unlocked(c)
            /\ UNCHANGED obj
       ELSE /\ obj' = [obj EXCEPT !.handle = 0]
            /\ caller' = [caller EXCEPT
                   ![c].pc = "do",
                   ![c].err = Raw(ErrAlreadyClosed),
                   ![c].exitCode = 0 - 1]
            /\ UNCHANGED handleLock
    /\ UNCHANGED <<callbackMap, nextCallback, waiter, creator, hist, notObjVars>>

\* closedWaitOnce.Do(f): the first caller runs f; a caller arriving while f
\* runs waits for it; a caller arriving after it finds the Once done and Do
\* returns at once.
DoEnter(x) ==
    /\ caller[x].pc = "do"
    /\ IF OnceAdmits(obj.once)
       THEN /\ obj' = [obj EXCEPT !.once = "busy"]
            /\ caller' = [caller EXCEPT ![x].pc = "write"]
       ELSE /\ obj.once = "done"
            /\ caller' = [caller EXCEPT ![x].pc = "return"]
            /\ UNCHANGED obj
    /\ UNCHANGED <<handleLock, callbackMap, nextCallback, waiter, creator, hist, notObjVars>>

\* f: the outcome is written (exitCode only by a Process) ...
DoWrite(x) ==
    /\ caller[x].pc = "write"
    /\ obj' = [obj EXCEPT
           !.waitError = caller[x].err,
           !.exitCode = IF obj.kind = "process" THEN caller[x].exitCode ELSE @]
    /\ hist' = [hist EXCEPT !.wrote = @ \cup {x}]
    /\ caller' = [caller EXCEPT ![x].pc = "close"]
    /\ UNCHANGED <<handleLock, callbackMap, nextCallback, waiter, creator, notObjVars>>

\* ... and f closes waitBlock: the Waits are unblocked while the Once is
\* still running f and the caller still holds what it holds of handleLock.
DoClose(x) ==
    /\ caller[x].pc = "close"
    /\ obj' = [obj EXCEPT !.waitBlock = "closed"]
    /\ hist' = [hist EXCEPT
           !.closeCount = @ + 1,
           !.closedWith = IF hist.closeCount = 0
                          THEN [by |-> x, waitError |-> obj.waitError,
                                exitCode |-> obj.exitCode]
                          ELSE @]
    /\ caller' = [caller EXCEPT ![x].pc = "doDone"]
    /\ UNCHANGED <<handleLock, callbackMap, nextCallback, waiter, creator, notObjVars>>

\* f has returned: Do stores done and lets the callers waiting on the Once
\* in; they will find it done.
DoDone(x) ==
    /\ caller[x].pc = "doDone"
    /\ obj' = [obj EXCEPT !.once = "done"]
    /\ caller' = [caller EXCEPT ![x].pc = "return"]
    /\ UNCHANGED <<handleLock, callbackMap, nextCallback, waiter, creator, hist, notObjVars>>

\* After Do the goroutine or call ends, releasing what it holds of
\* handleLock: the deferred RUnlock of Process.waitBackground, the deferred
\* Unlock of Close.
DoReturns(x) ==
    /\ caller[x].pc = "return"
    /\ caller' = [caller EXCEPT ![x].pc = "done"]
    /\ handleLock' = Unlocked(x)
    /\ UNCHANGED <<obj, callbackMap, nextCallback, waiter, creator, hist, notObjVars>>

\* Wait: <-waitBlock returns once the channel is closed ...
WaitUnblocked(w) ==
    /\ waiter[w].pc = "blocked"
    /\ obj.waitBlock = "closed"
    /\ waiter' = [waiter EXCEPT ![w].pc = "read"]
    /\ UNCHANGED <<obj, handleLock, callbackMap, nextCallback, caller, creator, hist, notObjVars>>

\* ... and Wait returns waitError.
WaitReturns(w) ==
    /\ waiter[w].pc = "read"
    /\ waiter' = [waiter EXCEPT ![w].pc = "done", ![w].err = obj.waitError]
    /\ UNCHANGED <<obj, handleLock, callbackMap, nextCallback, caller, creator, hist, notObjVars>>

(***************************************************************************)
(* The constructors: CreateComputeSystem, OpenComputeSystem, CreateProcess, *)
(* CreateProcessNoStdio and OpenProcess (src/hcs/process.go).              *)
(***************************************************************************)
Constructors ==
    {"CreateComputeSystem", "OpenComputeSystem", "CreateProcess",
     "CreateProcessNoStdio", "OpenProcess"}
KindOf(op) ==
    IF op \in {"CreateComputeSystem", "OpenComputeSystem"} THEN "system" ELSE "process"
\* The operation the constructor's errors name.
ErrorOp(op) == IF op = "CreateProcessNoStdio" THEN "CreateProcess" ELSE op
ErrOpenFiles == "ErrOpenFiles"

\* What the host answers to hcsCreateComputeSystem, and what waiting for
\* the "create completed" notification yields.
HcsCreateResults == {Nil, ErrVmcomputeOperationPending, HcsError}
CreateNotifications == {Nil, ErrTimeout, ErrVmcomputeUnexpectedExit, HcsError}

IsPending(err) == err = ErrVmcomputeOperationPending

\* The caller of CreateComputeSystem: where it is, whether the host left
\* the creation pending, the call that failed and the error it is about to
\* return, the host requests it has made itself, and whether it returned
\* the System.
NoCreator ==
    [op |-> "CreateComputeSystem", pc |-> "none", pending |-> FALSE, failedAt |-> "",
     err |-> NilError, requests |-> <<>>, system |-> FALSE, callbackNumber |-> 0]

\* Terminate: a request to the host unless the handle is 0.
TerminateRequests(handle) == IF handle = 0 THEN <<>> ELSE <<"Terminate">>

\* The cleanup of CreateComputeSystem that forgets the Terminate.
CreateCleanupNoTerminate(failedAt, err, handle) == <<>>

\* The cleanup of CreateComputeSystem before it returns an error: Terminate
\* when registerCallback failed, and when the wait ended with ErrTimeout.
CreateCleanup(failedAt, err, handle) ==
    IF failedAt = "registerCallback" \/ err = ErrTimeout
    THEN TerminateRequests(handle) ELSE <<>>

\* json.Marshal and hcsCreateComputeSystem: a document that cannot be
\* marshalled and a request the host rejects return at once, with no
\* deferred Close.
CreateRequest(marshalErr, createError) ==
    /\ creator.pc = "start"
    /\ creator.op = "CreateComputeSystem"
    /\ IF marshalErr # Nil
       THEN /\ createError = Nil
            /\ creator' = [creator EXCEPT !.pc = "done", !.err = Raw(marshalErr)]
            /\ UNCHANGED obj
       ELSE IF createError = Nil \/ IsPending(createError)
       THEN /\ obj' = [obj EXCEPT !.handle = 1]
            /\ creator' = [creator EXCEPT
                   !.pc = "registerCallback",
                   !.pending = IsPending(createError),
                   !.requests = Append(@, "Create")]
       ELSE /\ creator' = [creator EXCEPT
                   !.pc = "done",
                   !.err = makeSystemError("CreateComputeSystem", createError),
                   !.requests = Append(@, "Create")]
            /\ UNCHANGED obj
    /\ UNCHANGED <<handleLock, callbackMap, nextCallback, caller, waiter, hist, notObjVars>>

\* createProcess and OpenProcess, under the System's read lock:
\* "if computeSystem.handle == 0".
ParentClosed(parentHandle) == parentHandle = 0

\* OpenComputeSystem, createProcess and OpenProcess ask the host for the
\* handle and return its error at once; createProcess and OpenProcess, which
\* are methods of a System, first return ErrAlreadyClosed when its handle
\* is 0, and createProcess the error of json.Marshal.  CreateProcess then
\* wraps the three stdio handles in files: if that fails, the deferred
\* function calls Close.
OpenRequest(parentHandle, marshalErr, hostErr, pipesErr) ==
    /\ creator.pc = "start"
    /\ creator.op # "CreateComputeSystem"
    /\ creator.op = "OpenComputeSystem" => parentHandle # 0
    /\ creator.op \in {"OpenComputeSystem", "OpenProcess"} => marshalErr = Nil
    /\ LET request == IF creator.op = "OpenComputeSystem" THEN "Open"
                      ELSE IF creator.op = "OpenProcess" THEN "OpenProcess"
                      ELSE "CreateProcess"
       IN IF ParentClosed(parentHandle) \/ marshalErr # Nil
          THEN /\ hostErr = Nil /\ pipesErr = Nil
               /\ ParentClosed(parentHandle) => marshalErr = Nil
               /\ creator' = [creator EXCEPT
                      !.pc = "done",
                      !.err = makeSystemError(ErrorOp(creator.op),
                                  IF ParentClosed(parentHandle)
                                  THEN ErrAlreadyClosed ELSE marshalErr)]
               /\ UNCHANGED <<obj, caller>>
          ELSE IF hostErr # Nil
          THEN /\ pipesErr = Nil
               /\ creator' = [creator EXCEPT
                      !.pc = "done",
                      !.err = makeSystemError(ErrorOp(creator.op), hostErr),
                      !.requests = Append(@, request)]
               /\ UNCHANGED <<obj, caller>>
          ELSE IF creator.op = "CreateProcess" /\ pipesErr # Nil
          THEN /\ obj' = [obj EXCEPT !.handle = 1]
               /\ creator' = [creator EXCEPT
                      !.pc = "Close",
                      !.failedAt = "makeOpenFiles",
                      !.err = makeSystemError("CreateProcess", pipesErr),
                      !.requests = Append(@, request)]
               /\ caller' = [caller EXCEPT ![<<"Close", 1>>] = IdleCaller("idle")]
          ELSE /\ pipesErr = Nil
               /\ obj' = [obj EXCEPT
                      !.handle = 1,
                      !.stdio = IF creator.op = "CreateProcess"
                                THEN [st \in Streams |-> "open"] ELSE @]
               /\ creator' = [creator EXCEPT
                      !.pc = "registerCallback",
                      !.requests = Append(@, request)]
               /\ UNCHANGED caller
    /\ UNCHANGED <<handleLock, callbackMap, nextCallback, waiter, hist, notObjVars>>

\* A constructor that goes on after registerCallback failed.
RegisterFailureIgnored(op) == "created"

\* After registerCallback failed OpenProcess returns the error; the other
\* constructors return it through their deferred Close.
RegisterFailureNext(op) == IF op = "OpenProcess" THEN "done" ELSE "cleanup"

\* registerCallback up to the host call, under callbackMapLock.Lock(): the
\* local callbackNumber takes nextCallback, nextCallback goes up and the new
\* context, its handle still 0, enters callbackMap; the lock is released.
registerCallbackEnter ==
    /\ creator.pc = "registerCallback"
    /\ callbackMapLock.w = <<>> /\ callbackMapLock.r = {}
    /\ nextCallback' = nextCallback + 1
    /\ callbackMap' = [n \in DOMAIN callbackMap \cup {nextCallback} |->
                          IF n = nextCallback THEN [handle |-> 0]
                          ELSE callbackMap[n]]
    /\ creator' = [creator EXCEPT !.pc = "registerHost",
                                  !.callbackNumber = nextCallback]
    /\ UNCHANGED <<obj, handleLock, caller, waiter, hist, notObjVars>>

\* registerCallback from the host call on, callbackMapLock not held: a
\* failure returns with the context left in callbackMap and callbackNumber
\* as it was; on success the context's handle and then the object's
\* callbackNumber are written.
registerCallback(hostErr) ==
    /\ creator.pc = "registerHost"
    /\ IF hostErr # Nil
       THEN /\ creator' = [creator EXCEPT
                   !.pc = RegisterFailureNext(creator.op),
                   !.failedAt = "registerCallback",
                   !.err = makeSystemError(ErrorOp(creator.op), hostErr),
                   !.requests = Append(@, "RegisterCallback")]
            /\ UNCHANGED <<obj, callbackMap, hostCallback>>
       ELSE /\ callbackMap' = [callbackMap EXCEPT
                   ![creator.callbackNumber] = [handle |-> 1]]
            /\ obj' = [obj EXCEPT !.callbackNumber = creator.callbackNumber]
            /\ hostCallback' = "registered"
            /\ creator' = [creator EXCEPT
                   !.pc = IF creator.pending THEN "wait" ELSE "created",
                   !.requests = Append(@, "RegisterCallback")]
    /\ UNCHANGED <<handleLock, nextCallback, caller, waiter, hist, uvmVars,
                   startVars, ledgerVars, storeVars, callbackMapLock, dispatcher,
                   unreg>>

\* processAsyncHcsResult for a pending creation: waitForNotification
\* returns the notification's error, or ErrTimeout.
CreateNotified(waitErr) ==
    /\ creator.pc = "wait"
    /\ creator' = [creator EXCEPT
           !.pc = IF waitErr = Nil THEN "created" ELSE "cleanup",
           !.failedAt = IF waitErr = Nil THEN "" ELSE "processAsyncHcsResult",
           !.err = IF waitErr = Nil THEN NilError
                   ELSE makeSystemError("CreateComputeSystem", waitErr)]
    /\ UNCHANGED <<obj, handleLock, callbackMap, nextCallback, caller, waiter, hist, notObjVars>>

\* The error return: the cleanup (of CreateComputeSystem only), then the
\* deferred function calls Close.
CreateFails ==
    /\ creator.pc = "cleanup"
    /\ creator' = [creator EXCEPT
           !.pc = "Close",
           !.requests = IF creator.op = "CreateComputeSystem"
                        THEN @ \o CreateCleanup(creator.failedAt, creator.err.Err,
                                                obj.handle)
                        ELSE @]
    /\ caller' = [caller EXCEPT ![<<"Close", 1>>] = IdleCaller("idle")]
    /\ UNCHANGED <<obj, handleLock, callbackMap, nextCallback, waiter, hist, notObjVars>>

\* hcsGetComputeSystemProperties: an error, or no error with no document,
\* with a document that does not parse, or with the properties.
ErrUnexpectedValue == "ErrUnexpectedValue"
SystemPropertiesAnswers ==
    { [err |-> HcsError, propertiesp |-> "nil"],
      [err |-> Nil, propertiesp |-> "nil"],
      [err |-> Nil, propertiesp |-> "malformed"],
      [err |-> Nil, propertiesp |-> "properties"] }

\* The error System.Properties returns for the host's answer.
PropertiesError(answer) ==
    IF answer.err # Nil THEN makeSystemError("Properties", answer.err)
    ELSE IF answer.propertiesp = "nil" THEN Raw(ErrUnexpectedValue)
    ELSE IF answer.propertiesp = "malformed"
    THEN makeSystemError("Properties", ErrUnmarshal)
    ELSE NilError

\* The creation is complete: go waitBackground(); a Process is returned;
\* for a System getCachedProperties calls Properties (its query always
\* marshals) and its error is returned as Properties made it; if it fails
\* the deferred function calls Close.
CreateCompletes(answer) ==
    /\ creator.pc = "created"
    /\ KindOf(creator.op) = "process" =>
           answer = [err |-> Nil, propertiesp |-> "properties"]
    /\ LET propertiesErr == PropertiesError(answer)
       IN /\ caller' = [caller EXCEPT
                 ![Watcher] = IdleCaller("waiting"),
                 ![<<"Close", 1>>] = IF propertiesErr # NilError
                                     THEN IdleCaller("idle") ELSE @]
          /\ creator' = [creator EXCEPT
                 !.pc = IF propertiesErr # NilError THEN "Close" ELSE "done",
                 !.err = propertiesErr,
                 !.requests = IF KindOf(creator.op) = "system"
                              THEN Append(@, "Properties") ELSE @,
                 !.system = propertiesErr = NilError]
    /\ hist' = [hist EXCEPT !.started = @ + 1]
    /\ UNCHANGED <<obj, handleLock, callbackMap, nextCallback, waiter, notObjVars>>

\* The deferred Close has returned (its result is dropped) and
\* CreateComputeSystem returns nil and the error.
CreateReturns ==
    /\ creator.pc = "Close"
    /\ caller[<<"Close", 1>>].pc = "done"
    /\ creator' = [creator EXCEPT !.pc = "done"]
    /\ UNCHANGED <<obj, handleLock, callbackMap, nextCallback, caller, waiter, hist, notObjVars>>

(***************************************************************************)
(* The other operations on a System or Process.  Each runs under            *)
(* handleLock.RLock() from its entry to its return and begins with the test *)
(* of the handle.  Pause and Resume may wait for a notification with the    *)
(* read lock held and are taken step by step; the others make one host     *)
(* call and are one step.                                                   *)
(***************************************************************************)
\* An operation that goes to the host with a handle of 0.
ClosedHandleErrorNone(handle) == Nil

\* "if handle == 0 { return ... ErrAlreadyClosed }".
ClosedHandleError(handle) == IF handle = 0 THEN ErrAlreadyClosed ELSE Nil

\* What waiting for the "pause completed" / "resume completed" notification
\* yields.
PauseNotifications == {Nil, ErrTimeout, ErrVmcomputeUnexpectedExit}

\* System.Pause and System.Resume: handleLock.RLock() and the test of the
\* handle.  On a closed handle the call returns the error and its deferred
\* RUnlock runs; otherwise it goes on to the host holding the read lock.
PauseOrResumeCall(op) ==
    /\ obj.kind = "system"
    /\ HasObject
    /\ caller[PauseCaller(op)].pc = "none"
    /\ CanRLock
    /\ IF ClosedHandleError(obj.handle) # Nil
       THEN /\ hist' = Observed(Call(op, FALSE, Nil, FALSE, 0,
                        makeSystemError(op, ClosedHandleError(obj.handle))))
            /\ UNCHANGED <<caller, handleLock>>
       ELSE /\ handleLock' = [handleLock EXCEPT !.r = @ \cup {PauseCaller(op)}]
            /\ caller' = [caller EXCEPT ![PauseCaller(op)].pc = "request"]
            /\ UNCHANGED hist
    /\ UNCHANGED <<obj, callbackMap, nextCallback, waiter, creator, notObjVars>>

\* hcsPauseComputeSystem / hcsResumeComputeSystem answers.  On a pending
\* answer processAsyncHcsResult waits for the notification, the read lock
\* still held; on any other the call returns it (an error wrapped) and the
\* deferred RUnlock runs.
PauseOrResumeRequest(op, hostErr) ==
    /\ caller[PauseCaller(op)].pc = "request"
    /\ IF IsPending(hostErr)
       THEN /\ caller' = [caller EXCEPT ![PauseCaller(op)].pc = "wait"]
            /\ UNCHANGED <<hist, handleLock>>
       ELSE /\ hist' = Observed(Call(op, TRUE, hostErr, FALSE, 0,
                         IF hostErr = Nil THEN NilError
                         ELSE makeSystemError(op, hostErr)))
            /\ caller' = [caller EXCEPT ![PauseCaller(op)].pc = "none"]
            /\ handleLock' = Unlocked(PauseCaller(op))
    /\ UNCHANGED <<obj, callbackMap, nextCallback, waiter, creator, notObjVars>>

\* The wait of processAsyncHcsResult ends, with the notification or the
\* timeout: the call returns its outcome (an error wrapped) and the
\* deferred RUnlock runs.
PauseOrResumeNotified(op, waitErr) ==
    /\ caller[PauseCaller(op)].pc = "wait"
    /\ hist' = Observed(Call(op, TRUE, ErrVmcomputeOperationPending, FALSE, 0,
                  IF waitErr = Nil THEN NilError
                  ELSE makeSystemError(op, waitErr)))
    /\ caller' = [caller EXCEPT ![PauseCaller(op)].pc = "none"]
    /\ handleLock' = Unlocked(PauseCaller(op))
    /\ UNCHANGED <<obj, callbackMap, nextCallback, waiter, creator, notObjVars>>

\* System.Modify called on the System: a closed handle, then a request
\* that cannot be marshalled (returned as it is), then the host's answer.
ModifySystem(marshalErr, hostErr) ==
    /\ obj.kind = "system"
    /\ HasObject
    /\ CanRLock
    /\ IF ClosedHandleError(obj.handle) # Nil
       THEN /\ marshalErr = Nil /\ hostErr = Nil
            /\ hist' = Observed(Call("Modify", FALSE, Nil, FALSE, 0,
                        makeSystemError("Modify", ClosedHandleError(obj.handle))))
       ELSE IF marshalErr # Nil
       THEN /\ hostErr = Nil
            /\ hist' = Observed(Call("Modify", FALSE, Nil, FALSE, 0, Raw(marshalErr)))
       ELSE LET err == SystemModify(obj.handle, NoRequest, hostErr)
            IN hist' = Observed(Call("Modify", TRUE, hostErr, FALSE, 0,
                         IF err = Nil THEN NilError
                         ELSE makeSystemError("Modify", err)))
    /\ UNCHANGED <<obj, handleLock, callbackMap, nextCallback, caller, waiter,
                   creator, notObjVars>>

\* System.Properties, under the read lock: the query is marshalled and the
\* host is asked with computeSystem.handle as it is; the handle is not
\* tested.
Properties(marshalErr, answer) ==
    /\ obj.kind = "system"
    /\ HasObject
    /\ CanRLock
    /\ IF marshalErr # Nil
       THEN /\ answer = [err |-> Nil, propertiesp |-> "nil"]
            /\ hist' = Observed(Call("Properties", FALSE, Nil, FALSE, 0,
                        makeSystemError("Properties", marshalErr)))
       ELSE hist' = Observed(Call("Properties", TRUE, answer.err,
                         PropertiesError(answer) = NilError, 0,
                         PropertiesError(answer)))
    /\ UNCHANGED <<obj, handleLock, callbackMap, nextCallback, caller, waiter,
                   creator, notObjVars>>

\* CloseStdin that closes the local stream whatever the host answered.
StdinAfterCloseStdinAlways(st, hostErr) == CloseStream(st)

\* CloseStdin after hcsModifyProcess: an error returns before the stream is
\* touched; on success "if process.stdin != nil { process.stdin.Close() }".
StdinAfterCloseStdin(st, hostErr) == IF hostErr = Nil THEN CloseStream(st) ELSE st

\* Process.ResizeConsole and Process.CloseStdin: hcsModifyProcess; after a
\* successful call CloseStdin closes process.stdin if there is one.
ModifyProcess(op, hostErr) ==
    /\ obj.kind = "process"
    /\ HasObject
    /\ CanRLock
    /\ IF ClosedHandleError(obj.handle) # Nil
       THEN /\ hostErr = Nil
            /\ hist' = Observed(Call(op, FALSE, Nil, FALSE, 0,
                        makeProcessError(op, ClosedHandleError(obj.handle))))
            /\ UNCHANGED obj
       ELSE /\ hist' = Observed(Call(op, TRUE, hostErr, FALSE, 0,
                         IF hostErr = Nil THEN NilError
                         ELSE makeProcessError(op, hostErr)))
            /\ obj' = IF op = "CloseStdin"
                      THEN [obj EXCEPT !.stdio.stdin = StdinAfterCloseStdin(@, hostErr)]
                      ELSE obj
    /\ UNCHANGED <<handleLock, callbackMap, nextCallback, caller, waiter,
                   creator, notObjVars>>

ResizeConsole(hostErr) == ModifyProcess("ResizeConsole", hostErr)
CloseStdin(hostErr) == ModifyProcess("CloseStdin", hostErr)

VSMBOptions == {"ReadOnly"}

(***************************************************************************)
(* Specifications.  Each explores one part of the program and leaves the   *)
(* state of the other parts as constructed.                                *)
(***************************************************************************)
\* A utility VM as its constructor leaves it: no share, a zero counter, an
\* all-free table, no call made.
NewUVM ==
    /\ vsmbShares = [p \in {} |-> ZeroShare]
    /\ vsmbCounter = 0
    /\ vpmemDevices = [i \in Slots |-> ZeroVPMEM]
    /\ run = [p \in HostPathInputs |-> IdleRun]
    /\ live = [p \in HostPathInputs |-> 0]
    /\ last = Returned("none", "", Nil, NoRequest, 0, "")

\* CreateWCOW: a Windows utility VM whose share map is made.
CreateWCOW ==
    /\ operatingSystem = "windows"
    /\ vsmbSharesNil = FALSE
    /\ NewUVM

\* Create: a utility VM of the operating system asked for, "linux" or
\* "windows"; only id, owner and operatingSystem are set, so the share map
\* is nil.
Create(os) ==
    /\ os \in {"linux", "windows"}
    /\ operatingSystem = os
    /\ vsmbSharesNil = TRUE
    /\ NewUVM

\* A utility VM from either constructor.
Constructed == CreateWCOW \/ \E os \in {"linux", "windows"} : Create(os)

\* No caller of Start yet, nothing in progress.
(***************************************************************************)
(* The ledger operations taken step by step.  AddVSMB, RemoveVSMB, AddVPMEM *)
(* and RemoveVPMEM test the operating system, take uvm.m and hold it until  *)
(* they return; where they call uvm.Modify, System.Modify takes the handle  *)
(* lock shared around the host call.                                        *)
(***************************************************************************)
LedgerOps == {"AddVSMB", "RemoveVSMB", "AddVPMEM", "RemoveVPMEM"}

\* The operating-system test at the head of each operation.
Supported(op, os) ==
    IF op = "GetVSMBUvmPath" THEN TRUE
    ELSE IF op \in {"AddVSMB", "RemoveVSMB"} THEN os = "windows" ELSE os = "linux"

\* A mutex that never makes a caller wait.
CanLockLedgerAlways(holder) == TRUE

\* uvm.m.Lock() returns only when no caller holds uvm.m.
CanLockLedger(holder) == holder = <<>>

\* uvm.m given up before the call of uvm.Modify.
LedgerReleasedBeforeModify(holder, t) == IF holder = t THEN <<>> ELSE holder

\* defer uvm.m.Unlock(): uvm.m stays with the caller through uvm.Modify.
LedgerHeldThroughModify(holder, t) == t

\* The operation from uvm.m.Lock() to its call of uvm.Modify, or to its
\* return when it makes none.  What it has written by then: AddVSMB of an
\* absent path has advanced the counter and named the share; RemoveVSMB of
\* a last reference has taken the count down; AddVPMEM and RemoveVPMEM
\* have written nothing (allocateVPMEM writes a copy of the slot).
LedgerBefore(op, hostPath, nilMap, shares, counter, devices) ==
    CASE op = "AddVSMB" ->
             LET r == AddVSMBResult(nilMap, shares, counter, hostPath,
                                    "gr", "ReadOnly", Nil)
             IN IF r.modify = NoRequest
                THEN [shares |-> r.shares, counter |-> r.counter, devices |-> devices,
                      modify |-> NoRequest, err |-> r.err, local |-> NoLocals]
                ELSE [shares |-> shares, counter |-> NextShareCounter(counter),
                      devices |-> devices, modify |-> r.modify, err |-> Nil,
                      local |-> [NoLocals EXCEPT !.name = r.modify.Settings.Name]]
      [] op = "RemoveVSMB" ->
             LET r == RemoveVSMBResult(shares, hostPath, Nil)
             IN IF r.modify = NoRequest
                THEN [shares |-> r.shares, counter |-> counter, devices |-> devices,
                      modify |-> NoRequest, err |-> r.err, local |-> NoLocals]
                ELSE [shares |-> PutShare(shares, hostPath,
                                    [shares[hostPath] EXCEPT !.refCount = DecRef(@)]),
                      counter |-> counter, devices |-> devices,
                      modify |-> r.modify, err |-> Nil,
                      local |-> [NoLocals EXCEPT !.name = shares[hostPath].name]]
      [] op = "GetVSMBUvmPath" ->
             LET r == GetVSMBUvmPathResult(shares, hostPath)
             IN [shares |-> shares, counter |-> counter, devices |-> devices,
                 modify |-> NoRequest, err |-> r.err, local |-> NoLocals]
      [] op = "AddVPMEM" ->
             LET r == AddVPMEMResult(devices, hostPath, "", TRUE, Nil)
             IN IF r.modify = NoRequest
                THEN [shares |-> shares, counter |-> counter, devices |-> r.devices,
                      modify |-> NoRequest, err |-> r.err, local |-> NoLocals]
                ELSE [shares |-> shares, counter |-> counter, devices |-> devices,
                      modify |-> r.modify, err |-> Nil,
                      local |-> [NoLocals EXCEPT
                                    !.deviceNumber = r.modify.HostedSettings.DeviceNumber,
                                    !.uvmPath = r.modify.HostedSettings.MountPath]]
      [] OTHER ->
             LET r == RemoveVPMEMResult(devices, hostPath, Nil)
                 found == findVPMEMDevice(devices, hostPath)
             IN IF r.modify = NoRequest
                THEN [shares |-> shares, counter |-> counter, devices |-> r.devices,
                      modify |-> NoRequest, err |-> r.err, local |-> NoLocals]
                ELSE [shares |-> shares, counter |-> counter, devices |-> devices,
                      modify |-> r.modify, err |-> Nil,
                      local |-> [NoLocals EXCEPT
                                    !.deviceNumber = found.deviceNumber,
                                    !.uvmPath = found.uvmPath]]

\* The operation from the return of uvm.Modify to its own: what it writes
\* on the answer and the error it returns.  AddVSMB's write of the new
\* share panics on the nil map.
LedgerAfter(op, hostPath, local, modifyErr, nilMap, shares, devices) ==
    CASE op = "AddVSMB" ->
             IF modifyErr # Nil
             THEN [shares |-> shares, devices |-> devices, err |-> modifyErr]
             ELSE IF nilMap
             THEN [shares |-> shares, devices |-> devices, err |-> PanicNilMap]
             ELSE [shares |-> PutShare(shares, hostPath,
                                  [name |-> local.name, guestRequest |-> "gr",
                                   refCount |-> IncRef(0)]),
                   devices |-> devices, err |-> Nil]
      [] op = "RemoveVSMB" ->
             IF modifyErr # Nil
             THEN [shares |-> shares, devices |-> devices,
                   err |-> "errVSMBRemoveFailed"]
             ELSE [shares |-> DeleteShare(shares, hostPath), devices |-> devices,
                   err |-> Nil]
      [] op = "AddVPMEM" ->
             IF modifyErr # Nil
             THEN [shares |-> shares,
                   devices |-> [devices EXCEPT ![local.deviceNumber] = ZeroVPMEM],
                   err |-> "errVPMEMAddFailed"]
             ELSE [shares |-> shares,
                   devices |-> [devices EXCEPT ![local.deviceNumber] =
                                   [hostPath |-> hostPath, uvmPath |-> local.uvmPath,
                                    refCount |-> 1]],
                   err |-> Nil]
      [] OTHER ->
             IF modifyErr # Nil
             THEN [shares |-> shares, devices |-> devices,
                   err |-> "errVPMEMRemoveFailed"]
             ELSE [shares |-> shares,
                   devices |-> [devices EXCEPT ![local.deviceNumber] = ZeroVPMEM],
                   err |-> Nil]

LedgerInBounds(res) ==
    /\ res.counter <= MaxCounter
    /\ SharesInBounds(res.shares)
    /\ DevicesInBounds(res.devices)

\* The calls in flight: entered and not yet returned.
InLedgerCall == {"lock", "modify", "host", "finish"}

\* A caller enters an operation: errNotSupported on the wrong operating
\* system, before any lock.
LedgerCall(t, op, hostPath) ==
    /\ worker[t].pc = "idle"
    /\ LET inFlight == \E u \in Workers : worker[u].pc \in InLedgerCall
       IN worker' = [worker EXCEPT ![t] =
              IF Supported(op, operatingSystem)
              THEN [IdleWorker("lock") EXCEPT
                       !.op = op, !.hostPath = hostPath, !.overlapped = inFlight]
              ELSE [IdleWorker("done") EXCEPT
                       !.op = op, !.hostPath = hostPath, !.overlapped = inFlight,
                       !.ret = errNotSupported]]
    /\ UNCHANGED <<uvmVars, startVars, objVars, dispatchVars, storeVars, ledgerLock>>

\* uvm.m.Lock() and the lookup.  An operation that needs no host call
\* updates the ledger and returns, releasing uvm.m; the others write what
\* they write before the host is asked and go on to uvm.Modify holding
\* uvm.m.
LedgerLock(t) ==
    /\ worker[t].pc = "lock"
    /\ CanLockLedger(ledgerLock)
    /\ LET res == LedgerBefore(worker[t].op, worker[t].hostPath, vsmbSharesNil,
                               vsmbShares, vsmbCounter, vpmemDevices) IN
       /\ LedgerInBounds(res)
       /\ vsmbShares' = res.shares
       /\ vsmbCounter' = res.counter
       /\ vpmemDevices' = res.devices
       /\ IF res.modify = NoRequest
          THEN /\ worker' = [worker EXCEPT ![t].pc = "done", ![t].ret = res.err]
               /\ UNCHANGED ledgerLock
          ELSE /\ ledgerLock' = t
               /\ worker' = [worker EXCEPT ![t].pc = "modify",
                                           ![t].local = res.local]
    /\ UNCHANGED <<operatingSystem, vsmbSharesNil, run, live, last, startVars, objVars,
                   dispatchVars, storeVars>>

\* uvm.Modify -> System.Modify: handleLock.RLock().
ModifyRLock(t) ==
    /\ worker[t].pc = "modify"
    /\ CanRLock
    /\ handleLock' = [handleLock EXCEPT !.r = @ \cup {t}]
    /\ ledgerLock' = LedgerHeldThroughModify(ledgerLock, t)
    /\ worker' = [worker EXCEPT ![t].pc = "host"]
    /\ UNCHANGED <<uvmVars, startVars, dispatchVars, storeVars, obj, callbackMap, nextCallback,
                   caller, waiter, creator, hist>>

\* System.Modify answers (ErrAlreadyClosed without a host call on a closed
\* handle) and returns: its deferred RUnlock releases the handle lock.  The
\* caller still holds uvm.m and has not yet acted on the answer.
ModifyReturn(t, hostErr) ==
    /\ worker[t].pc = "host"
    /\ obj.handle = 0 => hostErr = Nil
    /\ worker' = [worker EXCEPT
           ![t].pc = "finish",
           ![t].modifyErr = SystemModify(obj.handle, NoRequest, hostErr),
           ![t].asked = (obj.handle # 0)]
    /\ handleLock' = Unlocked(t)
    /\ UNCHANGED <<uvmVars, startVars, dispatchVars, storeVars, ledgerLock, obj,
                   callbackMap, nextCallback, caller, waiter, creator, hist>>

\* The operation acts on uvm.Modify's answer and returns: the deferred
\* uvm.m.Unlock() runs, also when AddVSMB panics; then the call does not
\* return, the panic goes up the caller's stack.
LedgerFinish(t) ==
    /\ worker[t].pc = "finish"
    /\ LET res == LedgerAfter(worker[t].op, worker[t].hostPath, worker[t].local,
                              worker[t].modifyErr, vsmbSharesNil, vsmbShares,
                              vpmemDevices) IN
       /\ SharesInBounds(res.shares)
       /\ DevicesInBounds(res.devices)
       /\ vsmbShares' = res.shares
       /\ vpmemDevices' = res.devices
       /\ worker' = [worker EXCEPT
              ![t].pc = IF res.err = PanicNilMap THEN "panicked" ELSE "done",
              ![t].ret = res.err]
    /\ ledgerLock' = IF ledgerLock = t THEN <<>> ELSE ledgerLock
    /\ UNCHANGED <<operatingSystem, vsmbSharesNil, vsmbCounter, run, live, last,
                   startVars, objVars, dispatchVars, storeVars>>

\* ---------------------------------------------------------------------
\* ncproxystore.ComputeAgentStore (src/unnamed/part_002): container id ->
\* compute agent address, kept in one bucket of a bolt database.
\* ---------------------------------------------------------------------
ContainerIDs == {"c1", "c2", "c3"}
Addresses == {"addr1", "addr2"}
ErrBucketNotFound == "ErrBucketNotFound"
errKeyNotFound == "errKeyNotFound"
ErrDatabaseNotOpen == "ErrDatabaseNotOpen"
\* What DB.View or DB.Update itself returns: nil, or its error with the
\* function not run (or its transaction not committed).
DBResults == {Nil, ErrDatabaseNotOpen}

EmptyDB == [bucket |-> FALSE, data |-> [k \in {} |-> ""]]

NoStore ==
    /\ agentDB = EmptyDB
    /\ agentLast = [op |-> "none", containerID |-> "", result |-> "", err |-> Nil]

\* bkt.Delete(key) of bolt: "If the key does not exist then nothing is done
\* and a nil error is returned."
boltDelete(data, key) ==
    [data |-> [k \in DOMAIN data \ {key} |-> data[k]], err |-> Nil]

\* GetComputeAgent: the address stored for containerID.
GetComputeAgentResult(db, containerID, dbErr) ==
    IF dbErr # Nil THEN [result |-> "", err |-> dbErr]
    ELSE IF ~db.bucket THEN [result |-> "", err |-> ErrBucketNotFound]
    ELSE IF containerID \notin DOMAIN db.data
    THEN [result |-> "", err |-> errKeyNotFound]
    ELSE [result |-> db.data[containerID], err |-> Nil]

\* UpdateComputeAgent: the bucket is created when absent and the address put
\* under containerID.
UpdateComputeAgentResult(db, containerID, address, dbErr) ==
    IF dbErr # Nil THEN [db |-> db, err |-> dbErr]
    ELSE [db |-> [bucket |-> TRUE,
                  data |-> [k \in DOMAIN db.data \cup {containerID} |->
                               IF k = containerID THEN address ELSE db.data[k]]],
          err |-> Nil]

\* DeleteComputeAgent: without the bucket ErrBucketNotFound, else what
\* bkt.Delete returns.
DeleteComputeAgentResult(db, containerID, dbErr) ==
    IF dbErr # Nil THEN [db |-> db, err |-> dbErr]
    ELSE IF ~db.bucket THEN [db |-> db, err |-> ErrBucketNotFound]
    ELSE LET d == boltDelete(db.data, containerID)
         IN [db |-> IF d.err = Nil THEN [db EXCEPT !.data = d.data] ELSE db,
             err |-> d.err]

GetComputeAgent(containerID, dbErr) ==
    /\ LET r == GetComputeAgentResult(agentDB, containerID, dbErr)
       IN agentLast' = [op |-> "GetComputeAgent", containerID |-> containerID,
                        result |-> r.result, err |-> r.err]
    /\ UNCHANGED <<agentDB, uvmVars, startVars, objVars, ledgerVars, dispatchVars>>

UpdateComputeAgent(containerID, address, dbErr) ==
    /\ LET r == UpdateComputeAgentResult(agentDB, containerID, address, dbErr)
       IN /\ agentDB' = r.db
          /\ agentLast' = [op |-> "UpdateComputeAgent", containerID |-> containerID,
                           result |-> "", err |-> r.err]
    /\ UNCHANGED <<uvmVars, startVars, objVars, ledgerVars, dispatchVars>>

DeleteComputeAgent(containerID, dbErr) ==
    /\ LET r == DeleteComputeAgentResult(agentDB, containerID, dbErr)
       IN /\ agentDB' = r.db
          /\ agentLast' = [op |-> "DeleteComputeAgent", containerID |-> containerID,
                           result |-> "", err |-> r.err]
    /\ UNCHANGED <<uvmVars, startVars, objVars, ledgerVars, dispatchVars>>

\* ---------------------------------------------------------------------
\* unregisterCallback step by step, beside the notification callbacks the
\* host runs on its own threads.
\* ---------------------------------------------------------------------
MaxDispatchers == 2
Dispatchers == {<<"notificationWatcher", i>> : i \in 1 .. MaxDispatchers}

IdleDispatcher == [pc |-> "idle", found |-> FALSE, wrote |-> "none"]
NoUnregister == [pc |-> "none", found |-> FALSE, handle |-> 0]

\* No callback is running and no unregisterCallback is under way; the host
\* holds the callback registered by registerCallback.
NoDispatch ==
    /\ callbackMapLock = [w |-> <<>>, r |-> {}]
    /\ hostCallback = "registered"
    /\ dispatcher = [d \in Dispatchers |-> IdleDispatcher]
    /\ unreg = NoUnregister

\* The same before registerCallback has asked the host: the host holds no
\* callback for the object.
NoCallback ==
    /\ callbackMapLock = [w |-> <<>>, r |-> {}]
    /\ hostCallback = "none"
    /\ dispatcher = [d \in Dispatchers |-> IdleDispatcher]
    /\ unreg = NoUnregister

\* unregisterCallback that closes the channels before the host has
\* unregistered the callback.
StepAfterClosingFirst(step) ==
    IF step = "lookup" THEN "closeChannels"
    ELSE IF step = "closeChannels" THEN "unregister"
    ELSE IF step = "unregister" THEN "delete"
    ELSE "return"

\* The order of unregisterCallback's statements: the context is looked up,
\* the host unregisters the callback, closeChannels, delete from callbackMap.
StepAfter(step) ==
    IF step = "lookup" THEN "unregister"
    ELSE IF step = "unregister" THEN "closeChannels"
    ELSE IF step = "closeChannels" THEN "delete"
    ELSE "return"

\* The host calls the callback it holds registered, with the callback number
\* given at registration; not once the callback is being unregistered.
NotificationBegins(d) ==
    /\ hostCallback = "registered"
    /\ dispatcher[d].pc = "idle"
    /\ dispatcher' = [dispatcher EXCEPT ![d].pc = "rlock"]
    /\ UNCHANGED <<callbackMapLock, hostCallback, unreg, objVars, uvmVars,
                   startVars, ledgerVars, storeVars>>

\* notificationWatcher: callbackMapLock.RLock(); context := callbackMap[n].
DispatchRLock(d) ==
    /\ dispatcher[d].pc = "rlock"
    /\ callbackMapLock.w = <<>>
    /\ callbackMapLock' = [callbackMapLock EXCEPT !.r = @ \cup {d}]
    /\ dispatcher' = [dispatcher EXCEPT
           ![d].pc = "runlock",
           ![d].found = obj.callbackNumber \in DOMAIN callbackMap]
    /\ UNCHANGED <<hostCallback, unreg, objVars, uvmVars, startVars, ledgerVars, storeVars>>

\* notificationWatcher: callbackMapLock.RUnlock(); without a context the
\* callback returns.
DispatchRUnlock(d) ==
    /\ dispatcher[d].pc = "runlock"
    /\ callbackMapLock' = [callbackMapLock EXCEPT !.r = @ \ {d}]
    /\ dispatcher' = [dispatcher EXCEPT
           ![d].pc = IF dispatcher[d].found THEN "send" ELSE "idle"]
    /\ UNCHANGED <<hostCallback, unreg, objVars, uvmVars, startVars, ledgerVars, storeVars>>

\* notificationWatcher: the result is written to the context's channel of
\* the notification's kind, and the callback returns. What the channel was
\* at the write is kept: a write to a closed channel panics.
DispatchSend(d) ==
    /\ dispatcher[d].pc = "send"
    /\ dispatcher' = [dispatcher EXCEPT
           ![d].pc = "idle",
           ![d].wrote = IF @ = "closed" THEN @ ELSE obj.channels]
    /\ UNCHANGED <<callbackMapLock, hostCallback, unreg, objVars, uvmVars,
                   startVars, ledgerVars, storeVars>>

\* Close: handleLock.Lock(), "Don't double free this", the stdio streams of
\* a Process closed, then into unregisterCallback.
CloseLock(c) ==
    /\ caller[c].pc = "idle"
    /\ CanLock
    /\ IF HandleClosed(obj.handle)
       THEN /\ caller' = [caller EXCEPT ![c].pc = "done", ![c].ret = NilError]
            /\ UNCHANGED <<obj, handleLock, unreg>>
       ELSE /\ obj' = [obj EXCEPT
                   !.stdio = [st \in Streams |-> CloseStream(obj.stdio[st])]]
            /\ handleLock' = [handleLock EXCEPT !.w = c]
            /\ caller' = [caller EXCEPT ![c].pc = "unregisterCallback"]
            /\ unreg' = [NoUnregister EXCEPT !.pc = "rlock"]
    /\ UNCHANGED <<callbackMap, nextCallback, waiter, creator, hist,
                   callbackMapLock, hostCallback, dispatcher, uvmVars,
                   startVars, ledgerVars, storeVars>>

\* unregisterCallback returns to Close: an error ends Close, which unlocks
\* handleLock; without one Close goes on to close the handle.
UnregisterReturns(c, err) ==
    /\ unreg' = NoUnregister
    /\ IF err # Nil
       THEN /\ caller' = [caller EXCEPT
                   ![c].pc = "done", ![c].ret = makeError(obj.kind, "Close", err)]
            /\ handleLock' = Unlocked(c)
       ELSE /\ caller' = [caller EXCEPT ![c].pc = "unregistered"]
            /\ UNCHANGED handleLock

\* unregisterCallback: callbackMapLock.RLock(); context := callbackMap[n].
UnregisterRLock(c) ==
    /\ caller[c].pc = "unregisterCallback"
    /\ unreg.pc = "rlock"
    /\ callbackMapLock.w = <<>>
    /\ callbackMapLock' = [callbackMapLock EXCEPT !.r = @ \cup {c}]
    /\ unreg' = [unreg EXCEPT
           !.pc = "runlock",
           !.found = obj.callbackNumber \in DOMAIN callbackMap]
    /\ UNCHANGED <<hostCallback, dispatcher, objVars, uvmVars, startVars, ledgerVars, storeVars>>

\* unregisterCallback: callbackMapLock.RUnlock(); nothing to do without a
\* context or with a context whose handle is 0.
UnregisterRUnlock(c) ==
    /\ caller[c].pc = "unregisterCallback"
    /\ unreg.pc = "runlock"
    /\ callbackMapLock' = [callbackMapLock EXCEPT !.r = @ \ {c}]
    /\ LET handle == IF unreg.found THEN callbackMap[obj.callbackNumber].handle
                     ELSE 0
       IN IF handle = 0
          THEN UnregisterReturns(c, Nil)
          ELSE /\ unreg' = [unreg EXCEPT !.pc = StepAfter("lookup"),
                                         !.handle = handle]
               /\ UNCHANGED <<caller, handleLock>>
    /\ UNCHANGED <<obj, callbackMap, nextCallback, waiter, creator, hist,
                   hostCallback, dispatcher, uvmVars, startVars, ledgerVars, storeVars>>

\* unregisterCallback: the host is asked to unregister the callback. It
\* refuses with an error, or starts no further callback.
UnregisterHostCall(c, hostErr) ==
    /\ caller[c].pc = "unregisterCallback"
    /\ unreg.pc = "unregister"
    /\ IF hostErr # Nil
       THEN /\ UnregisterReturns(c, hostErr)
            /\ UNCHANGED hostCallback
       ELSE /\ hostCallback' = "unregistering"
            /\ unreg' = [unreg EXCEPT !.pc = "unregisterWait"]
            /\ UNCHANGED <<caller, handleLock>>
    /\ UNCHANGED <<obj, callbackMap, nextCallback, waiter, creator, hist,
                   callbackMapLock, dispatcher, uvmVars, startVars, ledgerVars, storeVars>>

\* The host's own synchronization: the unregistration returns when every
\* callback in flight has returned.
UnregisterHostReturns(c) ==
    /\ caller[c].pc = "unregisterCallback"
    /\ unreg.pc = "unregisterWait"
    /\ \A d \in Dispatchers : dispatcher[d].pc = "idle"
    /\ hostCallback' = "unregistered"
    /\ unreg' = [unreg EXCEPT !.pc = StepAfter("unregister")]
    /\ UNCHANGED <<callbackMapLock, dispatcher, objVars, uvmVars, startVars,
                   ledgerVars, storeVars>>

\* The callback handle the host gave to the registration of another System
\* or Process; the one it gives to the object created here is 1.
OtherCallback == 2

\* unregisterCallback: closeChannels(context.channels), the channels of the
\* context found under callbackNumber: the object's own, unless that
\* context is another object's.
UnregisterCloseChannels(c) ==
    /\ caller[c].pc = "unregisterCallback"
    /\ unreg.pc = "closeChannels"
    /\ obj' = [obj EXCEPT
           !.channels = IF unreg.handle = OtherCallback THEN @ ELSE "closed"]
    /\ unreg' = [unreg EXCEPT !.pc = StepAfter("closeChannels")]
    /\ UNCHANGED <<handleLock, callbackMap, nextCallback, caller, waiter, creator,
                   hist, callbackMapLock, hostCallback, dispatcher, uvmVars,
                   startVars, ledgerVars, storeVars>>

\* unregisterCallback: callbackMapLock.Lock(); delete(callbackMap, n).
UnregisterLock(c) ==
    /\ caller[c].pc = "unregisterCallback"
    /\ unreg.pc = "delete"
    /\ callbackMapLock = [w |-> <<>>, r |-> {}]
    /\ callbackMapLock' = [callbackMapLock EXCEPT !.w = c]
    /\ callbackMap' = [n \in DOMAIN callbackMap \ {obj.callbackNumber} |->
                          callbackMap[n]]
    /\ unreg' = [unreg EXCEPT !.pc = "unlock"]
    /\ UNCHANGED <<obj, handleLock, nextCallback, caller, waiter, creator, hist,
                   hostCallback, dispatcher, uvmVars, startVars, ledgerVars, storeVars>>

\* unregisterCallback: callbackMapLock.Unlock(); return nil.
UnregisterUnlock(c) ==
    /\ caller[c].pc = "unregisterCallback"
    /\ unreg.pc = "unlock"
    /\ callbackMapLock' = [callbackMapLock EXCEPT !.w = <<>>]
    /\ UnregisterReturns(c, Nil)
    /\ UNCHANGED <<obj, callbackMap, nextCallback, waiter, creator, hist,
                   hostCallback, dispatcher, uvmVars, startVars, ledgerVars, storeVars>>

\* No caller is inside a ledger operation.
NoWorkers ==
    /\ ledgerLock = <<>>
    /\ worker = [t \in Workers |-> IdleWorker("none")]

NoStarts ==
    /\ inProgress = 0
    /\ startsMutex = 0
    /\ starter = [t \in Starters |-> IdleStarter]

\* newSystem / newProcess: an open wait signal, nothing else set.
NewObject(kind) ==
    [kind |-> kind, handle |-> 0, callbackNumber |-> 0, channels |-> "open",
     waitBlock |-> "open", waitError |-> NilError, exitCode |-> 0,
     exitError |-> NilError, once |-> "new", stdio |-> NoStdio]

NoHistory ==
    [closeCount |-> 0, wrote |-> {}, lastCall |-> Unobserved, started |-> 0,
     closedWith |-> [by |-> <<>>, waitError |-> NilError, exitCode |-> 0]]

\* A System not yet created: no handle, no callback, no goroutine.
NoObject ==
    /\ obj = NewObject("system")
    /\ handleLock = [w |-> <<>>, r |-> {}]
    /\ callbackMap = [n \in {} |-> [handle |-> 0]]
    /\ nextCallback = 0
    /\ caller = [x \in Goroutines |-> IdleCaller("none")]
    /\ waiter = [w \in Waiters |-> [pc |-> "none", err |-> NilError]]
    /\ creator = NoCreator
    /\ hist = NoHistory

InitUVM ==
    /\ Constructed
    /\ maxParallel = 0
    /\ NoStarts
    /\ NoWorkers
    /\ NoCallback
    /\ NoStore
    /\ NoObject

NextUVM ==
    \/ \E p \in HostPaths, g \in GuestRequests, o \in VSMBOptions,
          e \in HcsModifyResults : AddVSMB(p, g, o, e)
    \/ \E p \in HostPaths, e \in HcsModifyResults : RemoveVSMB(p, e)
    \/ \E p \in HostPathInputs : GetVSMBUvmPath(p)
    \/ \E p \in HostPathInputs, u \in UvmPathInputs, x \in BOOLEAN,
          e \in HcsModifyResults : AddVPMEM(p, u, x, e)
    \/ \E p \in HostPathInputs, e \in HcsModifyResults : RemoveVPMEM(p, e)

SpecUVM == InitUVM /\ [][NextUVM]_vars

\* The program after init(): the throttle maximum read from the environment.
InitStart ==
    /\ \E mpsS \in EnvInputs : maxParallel = MaxParallelFromEnv(mpsS)
    /\ NoStarts
    /\ NoWorkers
    /\ NoCallback
    /\ NoStore
    /\ CreateWCOW
    /\ NoObject

NextStart ==
    \/ \E t \in Starters, h \in {0, 1} : StartCall(t, h)
    \/ \E t \in Starters : LockStarts(t)
    \/ \E t \in Starters : CheckStarts(t)
    \/ \E t \in Starters : WakeStarter(t)
    \/ \E t \in Starters, e \in HcsStartResults : RequestStart(t, e)
    \/ \E t \in Starters, e \in StartNotifications : StartNotified(t, e)
    \/ \E t \in Starters : ReleaseStart(t)
    \/ \E t \in Starters : ReturnStart(t)

SpecStart == InitStart /\ [][NextStart]_vars

\* Fair scheduling of the goroutines inside Start: each one that can take
\* its next step takes it.  The deferred release contends for the throttle
\* mutex with the pollers; sync.Mutex hands the mutex to a waiter that has
\* been starved, so a release that can run again and again does run.
FairStart ==
    \A t \in Starters :
        /\ WF_vars(LockStarts(t))
        /\ WF_vars(CheckStarts(t))
        /\ WF_vars(WakeStarter(t))
        /\ WF_vars(\E e \in HcsStartResults : RequestStart(t, e))
        /\ WF_vars(\E e \in StartNotifications : StartNotified(t, e))
        /\ SF_vars(ReleaseStart(t))
        /\ WF_vars(ReturnStart(t))

SpecStartFair == InitStart /\ [][NextStart]_vars /\ FairStart

\* A System or a Process as CreateComputeSystem, OpenComputeSystem,
\* createProcess or OpenProcess return it: handle open, callback
\* registered, waitBackground started; callers of Close and Wait at hand.
InitWait ==
    /\ \E kind \in {"system", "process"} :
           obj = [NewObject(kind) EXCEPT !.handle = 1]
    /\ handleLock = [w |-> <<>>, r |-> {}]
    /\ callbackMap = [n \in {0} |-> [handle |-> 1]]
    /\ nextCallback = 1
    /\ caller = [x \in Goroutines |->
                    IF x = Watcher THEN IdleCaller("waiting")
                    ELSE IF x \in Closers THEN IdleCaller("idle")
                    ELSE IdleCaller("none")]
    /\ waiter = [w \in Waiters |-> [pc |-> "blocked", err |-> NilError]]
    /\ creator = NoCreator
    /\ hist = NoHistory
    /\ CreateWCOW
    /\ maxParallel = 0
    /\ NoStarts
    /\ NoWorkers
    /\ NoDispatch
    /\ NoStore

NextWait ==
    \/ \E e \in ExitNotifications \cup {ErrHandleClose} : WatcherNotified(e)
    \/ WatcherRLock
    \/ \E res \in PropertiesResults : WatcherProperties(res)
    \/ \E m \in {Nil, ErrMarshal}, e \in SignalResults : Signal(m, e)
    \/ \E e \in SignalResults : Kill(e)
    \/ \E t \in Timers : TimerFires(t)
    \/ \E c \in Closers : CloseLock(c)
    \/ \E c \in Closers : UnregisterRLock(c)
    \/ \E c \in Closers : UnregisterRUnlock(c)
    \/ \E c \in Closers, e \in HcsResults : UnregisterHostCall(c, e)
    \/ \E c \in Closers : UnregisterHostReturns(c)
    \/ \E c \in Closers : UnregisterCloseChannels(c)
    \/ \E c \in Closers : UnregisterLock(c)
    \/ \E c \in Closers : UnregisterUnlock(c)
    \/ \E c \in Closers, e \in HcsResults : CloseHandle(c, e)
    \/ \E x \in Callers : DoEnter(x)
    \/ \E x \in Callers : DoWrite(x)
    \/ \E x \in Callers : DoClose(x)
    \/ \E x \in Callers : DoDone(x)
    \/ \E x \in Callers : DoReturns(x)
    \/ \E w \in Waiters : WaitUnblocked(w)
    \/ \E w \in Waiters : WaitReturns(w)

SpecWait == InitWait /\ [][NextWait]_vars

\* A constructor is called: newSystem has made the System, or createProcess
\* and OpenProcess are about to ask the host for the Process.  What the
\* user then calls on the returned object is observed.
InitCreate ==
    /\ \E op \in Constructors :
           /\ creator = [NoCreator EXCEPT !.pc = "start", !.op = op]
           /\ obj = NewObject(KindOf(op))
    /\ handleLock = [w |-> <<>>, r |-> {}]
    /\ callbackMap = [n \in {} |-> [handle |-> 0]]
    /\ nextCallback = 0
    /\ caller = [x \in Goroutines |-> IdleCaller("none")]
    /\ waiter = [w \in Waiters |-> [pc |-> "none", err |-> NilError]]
    /\ hist = [NoHistory EXCEPT !.lastCall = NoCall]
    /\ CreateWCOW
    /\ maxParallel = 0
    /\ NoStarts
    /\ NoWorkers
    /\ NoCallback
    /\ NoStore

NextCreate ==
    \/ \E m \in {Nil, ErrMarshal}, e \in HcsCreateResults : CreateRequest(m, e)
    \/ \E h \in {0, 1}, m \in {Nil, ErrMarshal}, e \in HcsResults,
          f \in {Nil, ErrOpenFiles} : OpenRequest(h, m, e, f)
    \/ registerCallbackEnter
    \/ \E e \in HcsResults : registerCallback(e)
    \/ \E e \in CreateNotifications : CreateNotified(e)
    \/ CreateFails
    \/ \E a \in SystemPropertiesAnswers : CreateCompletes(a)
    \/ CreateReturns
    \/ \E e \in SignalResults : Kill(e)
    \/ \E t \in Timers : TimerFires(t)
    \/ ExitCode
    \/ \E e \in StopResults : Shutdown(e)
    \/ \E e \in StopResults : Terminate(e)
    \/ CloseCall(<<"Close", 1>>)
    \/ \E e \in ExitNotifications \cup {ErrHandleClose} : WatcherNotified(e)
    \/ WatcherRLock
    \/ \E res \in PropertiesResults : WatcherProperties(res)
    \/ \E c \in Closers : CloseLock(c)
    \/ \E c \in Closers : UnregisterRLock(c)
    \/ \E c \in Closers : UnregisterRUnlock(c)
    \/ \E c \in Closers, e \in HcsResults : UnregisterHostCall(c, e)
    \/ \E c \in Closers : UnregisterHostReturns(c)
    \/ \E c \in Closers : UnregisterCloseChannels(c)
    \/ \E c \in Closers : UnregisterLock(c)
    \/ \E c \in Closers : UnregisterUnlock(c)
    \/ \E c \in Closers, e \in HcsResults : CloseHandle(c, e)
    \/ \E x \in Callers : DoEnter(x)
    \/ \E x \in Callers : DoWrite(x)
    \/ \E x \in Callers : DoClose(x)
    \/ \E x \in Callers : DoDone(x)
    \/ \E x \in Callers : DoReturns(x)

SpecCreate == InitCreate /\ [][NextCreate]_vars

\* A constructor is called while up to MaxOthers other Systems or Processes
\* are live: each was registered in turn, so their contexts are in
\* callbackMap under the numbers from 0 on and nextCallback is the next one.
InitIsolation ==
    /\ \E op \in Constructors :
           /\ creator = [NoCreator EXCEPT !.pc = "start", !.op = op]
           /\ obj = NewObject(KindOf(op))
    /\ handleLock = [w |-> <<>>, r |-> {}]
    /\ \E k \in 0 .. MaxOthers :
           /\ callbackMap = [n \in 0 .. k - 1 |-> [handle |-> OtherCallback]]
           /\ nextCallback = k
    /\ caller = [x \in Goroutines |-> IdleCaller("none")]
    /\ waiter = [w \in Waiters |-> [pc |-> "none", err |-> NilError]]
    /\ hist = [NoHistory EXCEPT !.lastCall = NoCall]
    /\ CreateWCOW
    /\ maxParallel = 0
    /\ NoStarts
    /\ NoWorkers
    /\ NoCallback
    /\ NoStore

SpecIsolation == InitIsolation /\ [][NextCreate]_vars

\* A System or a Process as returned to its user, who calls its operations
\* and, from one goroutine, Close, repeatedly; the calls are observed.
InitCalls ==
    /\ \E kind \in {"system", "process"} :
           obj = [NewObject(kind) EXCEPT !.handle = 1]
    /\ handleLock = [w |-> <<>>, r |-> {}]
    /\ callbackMap = [n \in {0} |-> [handle |-> 1]]
    /\ nextCallback = 1
    /\ caller = [x \in Goroutines |->
                    IF x = Watcher THEN IdleCaller("waiting") ELSE IdleCaller("none")]
    /\ waiter = [w \in Waiters |-> [pc |-> "none", err |-> NilError]]
    /\ creator = NoCreator
    /\ hist = [NoHistory EXCEPT !.lastCall = NoCall]
    /\ CreateWCOW
    /\ maxParallel = 0
    /\ NoStarts
    /\ NoWorkers
    /\ NoDispatch
    /\ NoStore

NextCalls ==
    \/ \E e \in ExitNotifications \cup {ErrHandleClose} : WatcherNotified(e)
    \/ WatcherRLock
    \/ \E res \in PropertiesResults : WatcherProperties(res)
    \/ \E m \in {Nil, ErrMarshal}, e \in SignalResults : Signal(m, e)
    \/ \E e \in SignalResults : Kill(e)
    \/ \E t \in Timers : TimerFires(t)
    \/ ExitCode
    \/ \E e \in StopResults : Shutdown(e)
    \/ \E e \in StopResults : Terminate(e)
    \/ CloseCall(<<"Close", 1>>)
    \/ CloseLock(<<"Close", 1>>)
    \/ UnregisterRLock(<<"Close", 1>>)
    \/ UnregisterRUnlock(<<"Close", 1>>)
    \/ \E e \in HcsResults : UnregisterHostCall(<<"Close", 1>>, e)
    \/ UnregisterHostReturns(<<"Close", 1>>)
    \/ UnregisterCloseChannels(<<"Close", 1>>)
    \/ UnregisterLock(<<"Close", 1>>)
    \/ UnregisterUnlock(<<"Close", 1>>)
    \/ \E e \in HcsResults : CloseHandle(<<"Close", 1>>, e)
    \/ \E x \in Callers : DoEnter(x)
    \/ \E x \in Callers : DoWrite(x)
    \/ \E x \in Callers : DoClose(x)
    \/ \E x \in Callers : DoDone(x)
    \/ \E x \in Callers : DoReturns(x)

SpecCalls == InitCalls /\ [][NextCalls]_vars

(***************************************************************************)
(* The utility VM's callers, step by step, beside a caller of Close on the *)
(* utility VM's compute system, which is running: its exit is not          *)
(* notified.                                                               *)
(***************************************************************************)
InitLedger ==
    /\ Constructed
    /\ maxParallel = 0
    /\ NoStarts
    /\ ledgerLock = <<>>
    /\ worker = [t \in Workers |-> IdleWorker("idle")]
    /\ obj = [NewObject("system") EXCEPT !.handle = 1]
    /\ handleLock = [w |-> <<>>, r |-> {}]
    /\ callbackMap = [n \in {0} |-> [handle |-> 1]]
    /\ nextCallback = 1
    /\ caller = [x \in Goroutines |->
                    IF x = Watcher THEN IdleCaller("waiting") ELSE IdleCaller("none")]
    /\ waiter = [w \in Waiters |-> [pc |-> "none", err |-> NilError]]
    /\ creator = NoCreator
    /\ hist = NoHistory
    /\ NoDispatch
    /\ NoStore

NextLedger ==
    \/ \E t \in Workers, op \in LedgerOps, p \in HostPaths : LedgerCall(t, op, p)
    \/ \E t \in Workers : LedgerLock(t)
    \/ \E t \in Workers : ModifyRLock(t)
    \/ \E t \in Workers, e \in HcsModifyResults : ModifyReturn(t, e)
    \/ \E t \in Workers : LedgerFinish(t)
    \/ CloseCall(<<"Close", 1>>)
    \/ CloseLock(<<"Close", 1>>)
    \/ UnregisterRLock(<<"Close", 1>>)
    \/ UnregisterRUnlock(<<"Close", 1>>)
    \/ \E e \in HcsResults : UnregisterHostCall(<<"Close", 1>>, e)
    \/ UnregisterHostReturns(<<"Close", 1>>)
    \/ UnregisterCloseChannels(<<"Close", 1>>)
    \/ UnregisterLock(<<"Close", 1>>)
    \/ UnregisterUnlock(<<"Close", 1>>)
    \/ \E e \in HcsResults : CloseHandle(<<"Close", 1>>, e)
    \/ DoEnter(<<"Close", 1>>)
    \/ DoWrite(<<"Close", 1>>)
    \/ DoClose(<<"Close", 1>>)
    \/ DoDone(<<"Close", 1>>)
    \/ DoReturns(<<"Close", 1>>)

SpecLedger == InitLedger /\ [][NextLedger]_vars

\* The same callers, GetVSMBUvmPath among their calls, all on one host
\* path, while the compute system may also exit: waitBackground is notified
\* (of the exit, or by Close closing its channels) and runs
\* closedWaitOnce.Do beside Close.
NextLedgerLive ==
    \/ \E t \in Workers, op \in LedgerOps \cup {"GetVSMBUvmPath"}, p \in {"hp1"} :
          LedgerCall(t, op, p)
    \/ \E t \in Workers : LedgerLock(t)
    \/ \E t \in Workers : ModifyRLock(t)
    \/ \E t \in Workers, e \in HcsModifyResults : ModifyReturn(t, e)
    \/ \E t \in Workers : LedgerFinish(t)
    \/ CloseCall(<<"Close", 1>>)
    \/ CloseLock(<<"Close", 1>>)
    \/ UnregisterRLock(<<"Close", 1>>)
    \/ UnregisterRUnlock(<<"Close", 1>>)
    \/ \E e \in HcsResults : UnregisterHostCall(<<"Close", 1>>, e)
    \/ UnregisterHostReturns(<<"Close", 1>>)
    \/ UnregisterCloseChannels(<<"Close", 1>>)
    \/ UnregisterLock(<<"Close", 1>>)
    \/ UnregisterUnlock(<<"Close", 1>>)
    \/ \E e \in HcsResults : CloseHandle(<<"Close", 1>>, e)
    \/ \E e \in {Nil, ErrHandleClose} : WatcherNotified(e)
    \/ \E x \in {Watcher, <<"Close", 1>>} : DoEnter(x)
    \/ \E x \in {Watcher, <<"Close", 1>>} : DoWrite(x)
    \/ \E x \in {Watcher, <<"Close", 1>>} : DoClose(x)
    \/ \E x \in {Watcher, <<"Close", 1>>} : DoDone(x)
    \/ \E x \in {Watcher, <<"Close", 1>>} : DoReturns(x)

\* Fair scheduling, host calls that return, and locks that are granted to a
\* goroutine that can take them again and again: sync.Mutex hands over to a
\* starved waiter, and sync.RWMutex lets the readers that waited for a
\* writer in before the next writer, and a waiting writer before new
\* readers.
FairLedger ==
    /\ \A t \in Workers :
           /\ SF_vars(LedgerLock(t))
           /\ SF_vars(ModifyRLock(t))
           /\ WF_vars(\E e \in HcsModifyResults : ModifyReturn(t, e))
           /\ WF_vars(LedgerFinish(t))
    /\ SF_vars(CloseLock(<<"Close", 1>>))
    /\ WF_vars(UnregisterRLock(<<"Close", 1>>))
    /\ WF_vars(UnregisterRUnlock(<<"Close", 1>>))
    /\ WF_vars(\E e \in HcsResults : UnregisterHostCall(<<"Close", 1>>, e))
    /\ WF_vars(UnregisterHostReturns(<<"Close", 1>>))
    /\ WF_vars(UnregisterCloseChannels(<<"Close", 1>>))
    /\ WF_vars(UnregisterLock(<<"Close", 1>>))
    /\ WF_vars(UnregisterUnlock(<<"Close", 1>>))
    /\ WF_vars(\E e \in HcsResults : CloseHandle(<<"Close", 1>>, e))
    /\ \A x \in {Watcher, <<"Close", 1>>} :
           /\ WF_vars(DoEnter(x))
           /\ WF_vars(DoWrite(x))
           /\ WF_vars(DoClose(x))
           /\ WF_vars(DoDone(x))
           /\ WF_vars(DoReturns(x))

SpecLedgerLive == InitLedger /\ [][NextLedgerLive]_vars /\ FairLedger

(***************************************************************************)
(* The operations that begin with the test of the handle, beside a caller  *)
(* of Close: on a running System as CreateComputeSystem returned it, and on *)
(* a Process from its constructor on, whose System may have been closed.   *)
(* Neither exits: waitBackground is woken only by Close.  The throttle     *)
(* maximum is 1 and one goroutine calls Start.                             *)
(***************************************************************************)
ProcessConstructors == {"CreateProcess", "CreateProcessNoStdio", "OpenProcess"}
HostAnswers == {Nil, HcsError}

InitHandleOps ==
    /\ \/ /\ obj = [NewObject("system") EXCEPT !.handle = 1]
          /\ callbackMap = [n \in {0} |-> [handle |-> 1]]
          /\ nextCallback = 1
          /\ caller = [x \in Goroutines |->
                          IF x = Watcher THEN IdleCaller("waiting")
                          ELSE IdleCaller("none")]
          /\ creator = NoCreator
          /\ NoDispatch
       \/ /\ obj = NewObject("process")
          /\ callbackMap = [n \in {} |-> [handle |-> 0]]
          /\ nextCallback = 0
          /\ caller = [x \in Goroutines |-> IdleCaller("none")]
          /\ \E op \in ProcessConstructors :
                 creator = [NoCreator EXCEPT !.pc = "start", !.op = op]
          /\ NoCallback
    /\ handleLock = [w |-> <<>>, r |-> {}]
    /\ waiter = [w \in Waiters |-> [pc |-> "none", err |-> NilError]]
    /\ hist = [NoHistory EXCEPT !.lastCall = NoCall]
    /\ CreateWCOW
    /\ maxParallel = MaxParallelFromEnv(<<"1">>)
    /\ NoStarts
    /\ NoWorkers
    /\ NoStore

NextHandleOps ==
    \/ \E h \in {0, 1}, m \in {Nil, ErrMarshal}, e \in HcsResults,
          f \in {Nil, ErrOpenFiles} : OpenRequest(h, m, e, f)
    \/ registerCallbackEnter
    \/ \E e \in HcsResults : registerCallback(e)
    \/ CreateFails
    \/ \E a \in SystemPropertiesAnswers : CreateCompletes(a)
    \/ CreateReturns
    \/ obj.kind = "system" /\ HasObject /\ StartCall(1, obj.handle)
    \/ LockStarts(1)
    \/ CheckStarts(1)
    \/ \E e \in HcsStartResults : RequestStart(1, e)
    \/ \E e \in StartNotifications : StartNotified(1, e)
    \/ ReleaseStart(1)
    \/ ReturnStart(1)
    \/ \E op \in {"Pause", "Resume"} : PauseOrResumeCall(op)
    \/ \E op \in {"Pause", "Resume"}, e \in HcsCreateResults :
          PauseOrResumeRequest(op, e)
    \/ \E op \in {"Pause", "Resume"}, w \in PauseNotifications :
          PauseOrResumeNotified(op, w)
    \/ \E m \in {Nil, ErrMarshal}, e \in HostAnswers : ModifySystem(m, e)
    \/ \E m \in {Nil, ErrMarshal}, a \in SystemPropertiesAnswers : Properties(m, a)
    \/ \E m \in {Nil, ErrMarshal}, e \in HostAnswers : Signal(m, e)
    \/ \E e \in HostAnswers : Kill(e)
    \/ \E e \in HostAnswers : ResizeConsole(e)
    \/ \E e \in HostAnswers : CloseStdin(e)
    \/ CloseCall(<<"Close", 1>>)
    \/ CloseLock(<<"Close", 1>>)
    \/ UnregisterRLock(<<"Close", 1>>)
    \/ UnregisterRUnlock(<<"Close", 1>>)
    \/ \E e \in HcsResults : UnregisterHostCall(<<"Close", 1>>, e)
    \/ UnregisterHostReturns(<<"Close", 1>>)
    \/ UnregisterCloseChannels(<<"Close", 1>>)
    \/ UnregisterLock(<<"Close", 1>>)
    \/ UnregisterUnlock(<<"Close", 1>>)
    \/ \E e \in HcsResults : CloseHandle(<<"Close", 1>>, e)
    \/ WatcherNotified(ErrHandleClose)
    \/ \E x \in {Watcher, <<"Close", 1>>} : DoEnter(x)
    \/ \E x \in {Watcher, <<"Close", 1>>} : DoWrite(x)
    \/ \E x \in {Watcher, <<"Close", 1>>} : DoClose(x)
    \/ \E x \in {Watcher, <<"Close", 1>>} : DoDone(x)
    \/ \E x \in {Watcher, <<"Close", 1>>} : DoReturns(x)

SpecHandleOps == InitHandleOps /\ [][NextHandleOps]_vars

\* A new database and callers of the compute agent store.
InitStore ==
    /\ CreateWCOW
    /\ maxParallel = 0
    /\ NoStarts
    /\ NoWorkers
    /\ NoCallback
    /\ NoStore
    /\ NoObject

NextStore ==
    \/ \E c \in ContainerIDs, e \in DBResults : GetComputeAgent(c, e)
    \/ \E c \in ContainerIDs, a \in Addresses, e \in DBResults :
          UpdateComputeAgent(c, a, e)
    \/ \E c \in ContainerIDs, e \in DBResults : DeleteComputeAgent(c, e)

SpecStore == InitStore /\ [][NextStore]_vars

\* A Linux utility VM and callers of AddVPMEM and RemoveVPMEM with more
\* host paths than the table has slots, each device exposed to the guest.
DevicePaths == HostPaths \cup {"hp3"}

InitVPMEM ==
    /\ operatingSystem = "linux"
    /\ vsmbSharesNil = TRUE
    /\ vsmbShares = [p \in {} |-> ZeroShare]
    /\ vsmbCounter = 0
    /\ vpmemDevices = [i \in Slots |-> ZeroVPMEM]
    /\ run = [p \in DevicePaths |-> IdleRun]
    /\ live = [p \in DevicePaths |-> 0]
    /\ last = Returned("none", "", Nil, NoRequest, 0, "")
    /\ maxParallel = 0
    /\ NoStarts
    /\ NoWorkers
    /\ NoCallback
    /\ NoStore
    /\ NoObject

NextVPMEM ==
    \/ \E p \in DevicePaths, u \in UvmPathInputs, e \in HcsModifyResults :
          AddVPMEM(p, u, TRUE, e)
    \/ \E p \in DevicePaths, e \in HcsModifyResults : RemoveVPMEM(p, e)

SpecVPMEM == InitVPMEM /\ [][NextVPMEM]_vars

\* A System whose exit is awaited: waitBackground waiting for the exit
\* notification, callers blocked in Wait, callers of ExitError, and Close.
InitExit ==
    /\ obj = [NewObject("system") EXCEPT !.handle = 1]
    /\ handleLock = [w |-> <<>>, r |-> {}]
    /\ callbackMap = [n \in {0} |-> [handle |-> 1]]
    /\ nextCallback = 1
    /\ caller = [x \in Goroutines |->
                    IF x = Watcher THEN IdleCaller("waiting")
                    ELSE IF x \in Closers THEN IdleCaller("idle")
                    ELSE IdleCaller("none")]
    /\ waiter = [w \in Waiters |-> [pc |-> "blocked", err |-> NilError]]
    /\ creator = NoCreator
    /\ hist = [NoHistory EXCEPT !.lastCall = NoCall]
    /\ CreateWCOW
    /\ maxParallel = 0
    /\ NoStarts
    /\ NoWorkers
    /\ NoDispatch
    /\ NoStore

NextExit ==
    \/ \E e \in ExitNotifications \cup {ErrHandleClose} : WatcherNotified(e)
    \/ \E c \in Closers : CloseLock(c)
    \/ \E c \in Closers : UnregisterRLock(c)
    \/ \E c \in Closers : UnregisterRUnlock(c)
    \/ \E c \in Closers, e \in HcsResults : UnregisterHostCall(c, e)
    \/ \E c \in Closers : UnregisterHostReturns(c)
    \/ \E c \in Closers : UnregisterCloseChannels(c)
    \/ \E c \in Closers : UnregisterLock(c)
    \/ \E c \in Closers : UnregisterUnlock(c)
    \/ \E c \in Closers, e \in HcsResults : CloseHandle(c, e)
    \/ \E x \in {Watcher} \cup Closers : DoEnter(x)
    \/ \E x \in {Watcher} \cup Closers : DoWrite(x)
    \/ \E x \in {Watcher} \cup Closers : DoClose(x)
    \/ \E x \in {Watcher} \cup Closers : DoDone(x)
    \/ \E x \in {Watcher} \cup Closers : DoReturns(x)
    \/ \E w \in Waiters : WaitUnblocked(w)
    \/ \E w \in Waiters : WaitReturns(w)
    \/ ExitError

SpecExit == InitExit /\ [][NextExit]_vars

\* A System or a Process with its callback registered: Close, taken through
\* unregisterCallback step by step, beside the host's notification callbacks
\* and the exit watcher.
InitDispatch ==
    /\ \/ obj = [NewObject("system") EXCEPT !.handle = 1]
       \/ obj = [NewObject("process") EXCEPT
                    !.handle = 1, !.stdio = [st \in Streams |-> "open"]]
    /\ handleLock = [w |-> <<>>, r |-> {}]
    /\ callbackMap = [n \in {0} |-> [handle |-> 1]]
    /\ nextCallback = 1
    /\ caller = [x \in Goroutines |->
                    IF x = Watcher THEN IdleCaller("waiting") ELSE IdleCaller("none")]
    /\ waiter = [w \in Waiters |-> [pc |-> "none", err |-> NilError]]
    /\ creator = NoCreator
    /\ hist = NoHistory
    /\ CreateWCOW
    /\ maxParallel = 0
    /\ NoStarts
    /\ NoWorkers
    /\ NoDispatch
    /\ NoStore

NextDispatch ==
    \/ \E d \in Dispatchers : NotificationBegins(d)
    \/ \E d \in Dispatchers : DispatchRLock(d)
    \/ \E d \in Dispatchers : DispatchRUnlock(d)
    \/ \E d \in Dispatchers : DispatchSend(d)
    \/ CloseCall(<<"Close", 1>>)
    \/ CloseLock(<<"Close", 1>>)
    \/ UnregisterRLock(<<"Close", 1>>)
    \/ UnregisterRUnlock(<<"Close", 1>>)
    \/ \E e \in HostAnswers : UnregisterHostCall(<<"Close", 1>>, e)
    \/ UnregisterHostReturns(<<"Close", 1>>)
    \/ UnregisterCloseChannels(<<"Close", 1>>)
    \/ UnregisterLock(<<"Close", 1>>)
    \/ UnregisterUnlock(<<"Close", 1>>)
    \/ \E e \in HcsResults : CloseHandle(<<"Close", 1>>, e)
    \/ \E e \in ExitNotifications \cup {ErrHandleClose} : WatcherNotified(e)
    \/ \E x \in {Watcher, <<"Close", 1>>} : DoEnter(x)
    \/ \E x \in {Watcher, <<"Close", 1>>} : DoWrite(x)
    \/ \E x \in {Watcher, <<"Close", 1>>} : DoClose(x)
    \/ \E x \in {Watcher, <<"Close", 1>>} : DoDone(x)
    \/ \E x \in {Watcher, <<"Close", 1>>} : DoReturns(x)

SpecDispatch == InitDispatch /\ [][NextDispatch]_vars

\* A System, a Process without stdio streams (CreateProcessNoStdio,
\* OpenProcess) or a Process owning its three streams (CreateProcess), as
\* returned to its user, and goroutines that call Close, concurrently and
\* repeatedly, while waitBackground runs.
InitClose ==
    /\ \/ obj = [NewObject("system") EXCEPT !.handle = 1]
       \/ obj = [NewObject("process") EXCEPT !.handle = 1]
       \/ obj = [NewObject("process") EXCEPT
                    !.handle = 1, !.stdio = [st \in Streams |-> "open"]]
    /\ handleLock = [w |-> <<>>, r |-> {}]
    /\ callbackMap = [n \in {0} |-> [handle |-> 1]]
    /\ nextCallback = 1
    /\ caller = [x \in Goroutines |->
                    IF x = Watcher THEN IdleCaller("waiting") ELSE IdleCaller("none")]
    /\ waiter = [w \in Waiters |-> [pc |-> "none", err |-> NilError]]
    /\ creator = NoCreator
    /\ hist = NoHistory
    /\ CreateWCOW
    /\ maxParallel = 0
    /\ NoStarts
    /\ NoWorkers
    /\ NoDispatch
    /\ NoStore

NextClose ==
    \/ \E e \in ExitNotifications \cup {ErrHandleClose} : WatcherNotified(e)
    \/ WatcherRLock
    \/ \E res \in PropertiesResults : WatcherProperties(res)
    \/ \E c \in ConcurrentClosers : CloseCall(c)
    \/ \E c \in ConcurrentClosers : CloseLock(c)
    \/ \E c \in ConcurrentClosers : UnregisterRLock(c)
    \/ \E c \in ConcurrentClosers : UnregisterRUnlock(c)
    \/ \E c \in ConcurrentClosers, e \in HcsResults : UnregisterHostCall(c, e)
    \/ \E c \in ConcurrentClosers : UnregisterHostReturns(c)
    \/ \E c \in ConcurrentClosers : UnregisterCloseChannels(c)
    \/ \E c \in ConcurrentClosers : UnregisterLock(c)
    \/ \E c \in ConcurrentClosers : UnregisterUnlock(c)
    \/ \E c \in ConcurrentClosers, e \in HcsResults : CloseHandle(c, e)
    \/ \E x \in Callers : DoEnter(x)
    \/ \E x \in Callers : DoWrite(x)
    \/ \E x \in Callers : DoClose(x)
    \/ \E x \in Callers : DoDone(x)
    \/ \E x \in Callers : DoReturns(x)

SpecClose == InitClose /\ [][NextClose]_vars

\* A Process with its handle open whose exit notification never arrives and
\* that nobody closes: callers of Signal, Kill and Wait, and the
\* force-unblock goroutines.  The calls are observed.
InitForceUnblock ==
    /\ obj = [NewObject("process") EXCEPT !.handle = 1]
    /\ handleLock = [w |-> <<>>, r |-> {}]
    /\ callbackMap = [n \in {0} |-> [handle |-> 1]]
    /\ nextCallback = 1
    /\ caller = [x \in Goroutines |->
                    IF x = Watcher THEN IdleCaller("waiting") ELSE IdleCaller("none")]
    /\ waiter = [w \in Waiters |-> [pc |-> "blocked", err |-> NilError]]
    /\ creator = NoCreator
    /\ hist = [NoHistory EXCEPT !.lastCall = NoCall]
    /\ CreateWCOW
    /\ maxParallel = 0
    /\ NoStarts
    /\ NoWorkers
    /\ NoDispatch
    /\ NoStore

NextForceUnblock ==
    \/ \E m \in {Nil, ErrMarshal}, e \in SignalResults : Signal(m, e)
    \/ \E e \in SignalResults : Kill(e)
    \/ \E t \in Timers : TimerFires(t)
    \/ \E x \in Callers : DoEnter(x)
    \/ \E x \in Callers : DoWrite(x)
    \/ \E x \in Callers : DoClose(x)
    \/ \E x \in Callers : DoDone(x)
    \/ \E x \in Callers : DoReturns(x)
    \/ \E w \in Waiters : WaitUnblocked(w)
    \/ \E w \in Waiters : WaitReturns(w)

\* The Go scheduler runs every runnable goroutine: a sleep ends, a Do that
\* can proceed proceeds, a Wait whose channel is closed returns.
FairForceUnblock ==
    /\ WF_vars(\E t \in Timers : TimerFires(t))
    /\ WF_vars(\E x \in Callers : DoEnter(x))
    /\ WF_vars(\E x \in Callers : DoWrite(x))
    /\ WF_vars(\E x \in Callers : DoClose(x))
    /\ WF_vars(\E x \in Callers : DoDone(x))
    /\ WF_vars(\E x \in Callers : DoReturns(x))
    /\ \A w \in Waiters : WF_vars(WaitUnblocked(w)) /\ WF_vars(WaitReturns(w))

SpecForceUnblock == InitForceUnblock /\ [][NextForceUnblock]_vars /\ FairForceUnblock

(***************************************************************************)
(* Claims about the resource ledger, checked under SpecUVM.                *)
(***************************************************************************)
Attached(devices, hostPath) == findVPMEMDevice(devices, hostPath).err = Nil

\* C3 as claimed: on a Windows utility VM, for a host path that was not in
\* the share ledger, while every host Modify succeeds: the adds of a run
\* issue one host Add in all (a = 1 from the first add on) and no host
\* Remove as long as removes are fewer than adds, the entry then holding
\* the difference as its count; when the removes equal the adds, exactly
\* one host Remove has been issued and the path has no entry in the ledger.
\* On the Windows utility VM that Create makes, the first AddVSMB has its
\* Add accepted by the host and leaves no entry.
C3_Original ==
    operatingSystem = "windows" =>
    \A p \in HostPaths :
        LET rn == run[p] IN
        /\ (rn.st \in {"adding", "removing"} /\ rn.d > 0) =>
               /\ rn.a = 1 /\ rn.r = 0
               /\ p \in DOMAIN vsmbShares
               /\ vsmbShares[p].refCount = rn.d
        /\ (rn.st = "removing" /\ rn.d = 0) =>
               /\ rn.a = 1 /\ rn.r = 1
               /\ p \notin DOMAIN vsmbShares

\* C4: on a Linux utility VM, for a host path that was not attached, while
\* every host Modify succeeds: the adds of a run issue one host Add in all
\* and no host Remove as long as removes are fewer than adds, the path's
\* slot then holding the difference as its count; when the removes equal
\* the adds, exactly one host Remove has been issued, the path is attached
\* nowhere, and the slot that held it is free when the last remove returns
\* (empty host path, count 0).
C4_VPMEMAddsThenRemoves ==
    operatingSystem = "linux" =>
    \A p \in HostPathInputs :
        LET rn == run[p] IN
        /\ (rn.st \in {"adding", "removing"} /\ rn.d > 0) =>
               /\ rn.a = 1 /\ rn.r = 0
               /\ vpmemDevices[rn.slot].hostPath = p
               /\ vpmemDevices[rn.slot].refCount = rn.d
        /\ (rn.st = "removing" /\ rn.d = 0) =>
               /\ rn.a = 1 /\ rn.r = 1
               /\ ~Attached(vpmemDevices, p)
               /\ (last.op = "RemoveVPMEM" /\ last.hostPath = p) =>
                      /\ vpmemDevices[rn.slot].hostPath = ""
                      /\ vpmemDevices[rn.slot].refCount = 0

\* Two adds of a path followed by two removes have just completed.
C4_Witness ==
    /\ operatingSystem = "linux"
    /\ last.op = "RemoveVPMEM" /\ last.err = Nil
    /\ run[last.hostPath].st = "removing"
    /\ run[last.hostPath].n >= 2 /\ run[last.hostPath].d = 0

\* A step that is RemoveVSMB called on a Windows utility VM for a path with
\* no entry in the ledger.
RemoveVSMBOfAbsent ==
    /\ operatingSystem = "windows"
    /\ last'.op = "RemoveVSMB"
    /\ last'.hostPath \notin DOMAIN vsmbShares

\* C5 as claimed: RemoveVSMB of a path that has no entry in the ledger
\* returns ErrNotAttached, sends no request to the host and leaves the
\* ledger and the name counter unchanged.  RemoveVSMB drops the
\* ErrNotAttached of findVSMBShare and returns a formatted error of its
\* own, which is not ErrNotAttached; the other three parts hold.
C5_Original ==
    [][RemoveVSMBOfAbsent =>
          /\ last'.err = ErrNotAttached
          /\ last'.modify = NoRequest
          /\ vsmbShares' = vsmbShares
          /\ vsmbCounter' = vsmbCounter]_vars

\* C6 as claimed: every share of the ledger and every attached device has a
\* count of at least 1 (no entry is left with count 0, none goes below).
C6_Original ==
    /\ \A p \in DOMAIN vsmbShares : vsmbShares[p].refCount >= 1
    /\ \A i \in Slots :
           vpmemDevices[i].hostPath # "" => vpmemDevices[i].refCount >= 1

\* C7: a successful AddVPMEM of a path that was not attached returns a slot
\* that was free just before the call and holds the path after it, and no
\* step gives an occupied slot to another path.
C7_AllocatesFreeSlot ==
    [][operatingSystem = "linux" =>
          /\ ( /\ last'.op = "AddVPMEM" /\ last'.err = Nil
               /\ ~Attached(vpmemDevices, last'.hostPath) ) =>
                 /\ vpmemDevices[last'.deviceNumber].hostPath = ""
                 /\ vpmemDevices'[last'.deviceNumber].hostPath = last'.hostPath
          /\ \A i \in Slots :
                 vpmemDevices[i].hostPath # "" =>
                     vpmemDevices'[i].hostPath \in {vpmemDevices[i].hostPath, ""}
      ]_vars

\* A path has just been attached while another path holds another slot.
C7_Witness ==
    /\ operatingSystem = "linux"
    /\ last.op = "AddVPMEM" /\ last.err = Nil
    /\ last.modify.RequestType = "Add"
    /\ vpmemDevices[last.deviceNumber].hostPath = last.hostPath
    /\ \E i \in Slots : /\ i < last.deviceNumber
                        /\ vpmemDevices[i].hostPath \notin {"", last.hostPath}

\* C8: once every path's successful removes have matched its successful
\* adds, every slot is free; and an AddVPMEM of a path that is not
\* attached, when a slot is free and the host accepts the request, succeeds
\* and returns the lowest free slot.
C8_SlotsReused ==
    [][operatingSystem = "linux" =>
          /\ (\A p \in HostPaths : live'[p] = 0) =>
                 \A i \in Slots : vpmemDevices'[i].hostPath = ""
          /\ ( /\ last'.op = "AddVPMEM"
               /\ ~Attached(vpmemDevices, last'.hostPath)
               /\ \E i \in Slots : vpmemDevices[i].hostPath = ""
               /\ last'.err # "errVPMEMAddFailed" ) =>
                 /\ last'.err = Nil
                 /\ last'.deviceNumber =
                        FirstOf({i \in Slots : vpmemDevices[i].hostPath = ""})
      ]_vars

\* A path has just been attached to the slot that another path held and
\* gave back, every other device having been removed.
C8_Witness ==
    /\ operatingSystem = "linux"
    /\ last.op = "AddVPMEM" /\ last.err = Nil
    /\ last.modify.RequestType = "Add"
    /\ \A p \in HostPaths \ {last.hostPath} : live[p] = 0
    /\ \E q \in HostPaths \ {last.hostPath} :
           /\ run[q].st = "removing" /\ run[q].d = 0
           /\ run[q].slot = last.deviceNumber

(***************************************************************************)
(* Claims about System.Start, checked under SpecStart.                     *)
(***************************************************************************)
\* The callers that hold a slot: past the admission check, the deferred
\* release not yet run.
Admitted == {t \in Starters : starter[t].pc \in {"request", "wait", "release"}}

\* The callers that have passed the admission check and not yet returned:
\* those holding a slot and those whose deferred release has run and whose
\* deferred RUnlock and return are still to come.
PastAdmission ==
    {t \in Starters : starter[t].pc \in {"request", "wait", "release", "return"}}

\* C1 as claimed: with the throttle maximum set to M > 0, the number of
\* callers of Start past the admission check and not yet returned never
\* exceeds M.
C1_Original ==
    maxParallel > 0 => Cardinality(PastAdmission) <= maxParallel

\* C1, amended: with the throttle maximum set to M > 0, under every
\* interleaving of the callers of Start, inProgress is the number of callers
\* that have passed the admission check and not yet run their deferred
\* release, and never exceeds M; a caller that has released its slot and
\* not yet returned is not counted.
C1_ThrottleBound ==
    maxParallel > 0 =>
        /\ inProgress = Cardinality(Admitted)
        /\ inProgress <= maxParallel

\* The throttle is full, one more caller has been turned away to sleep, and
\* a caller that has given its slot back has not returned yet.
C1_Witness ==
    /\ maxParallel > 0
    /\ inProgress = maxParallel
    /\ Cardinality(Admitted) = maxParallel
    /\ \E t \in Starters : starter[t].pc = "sleep"
    /\ \E t \in Starters : starter[t].pc = "return"

\* C10 as claimed: a Start that returns the timeout error has issued a host
\* Terminate before returning.  Start returns the error of the wait as it
\* is, the start request being the only one it has sent the host.
C10_Original ==
    \A t \in Starters :
        (starter[t].pc = "done" /\ IsTimeout(starter[t].ret)) =>
            \E i \in 1 .. Len(starter[t].requests) :
                starter[t].requests[i] = "Terminate"

(***************************************************************************)
(* Claims about the exit-wait signal, checked under SpecWait.              *)
(***************************************************************************)
\* C2: for a System and for a Process, under every interleaving of
\* waitBackground, the force-unblock timers of Signal and Kill, Close and
\* the callers of Wait: waitBlock is closed at most once, and is closed
\* exactly when that one close has happened; the outcome (waitError, and
\* exitCode for a Process) is written only by the goroutine that closes it
\* and is not changed afterwards; and every Wait that has returned has
\* returned the waitError of that close.
C2_WaitBlockClosedOnce ==
    /\ hist.closeCount <= 1
    /\ (obj.waitBlock = "closed") = (hist.closeCount = 1)
    /\ Cardinality(hist.wrote) <= 1
    /\ hist.closeCount = 1 =>
           /\ hist.wrote = {hist.closedWith.by}
           /\ obj.waitError = hist.closedWith.waitError
           /\ obj.exitCode = hist.closedWith.exitCode
    /\ \A w \in Waiters :
           waiter[w].pc = "done" => waiter[w].err = hist.closedWith.waitError

\* Three goroutines have been through closedWaitOnce.Do, one closed the
\* signal, and two callers of Wait have returned.
C2_Witness ==
    /\ hist.closeCount = 1
    /\ Cardinality({x \in Callers : caller[x].pc = "done"
                                    /\ caller[x].ret = NilError
                                    /\ (x \in Closers => obj.handle = 0)}) >= 3
    /\ \A w \in Waiters : waiter[w].pc = "done"

(***************************************************************************)
(* Claims about CreateComputeSystem, checked under SpecCreate.             *)
(***************************************************************************)
\* CreateComputeSystem has returned after the host accepted the request and
\* the wait for the "create completed" notification timed out.
CreateTimedOut ==
    /\ creator.pc = "done"
    /\ creator.failedAt = "processAsyncHcsResult"
    /\ creator.err.Err = ErrTimeout

\* C9 as claimed: when the creation times out, CreateComputeSystem has sent
\* the host a Terminate before returning, returns the timeout error and no
\* System, has started no waitBackground, and has released the handle.
C9_Original ==
    CreateTimedOut =>
        /\ \E i \in 1 .. Len(creator.requests) : creator.requests[i] = "Terminate"
        /\ IsTimeout(creator.err) /\ ~creator.system
        /\ caller[Watcher].pc = "none"
        /\ obj.handle = 0

\* C9, amended: when the host leaves a create request pending and the wait
\* for the "create completed" notification times out, CreateComputeSystem
\* sends the host a Terminate (after the create and callback registration
\* requests, its result unused), then calls Close and drops its result,
\* returns the timeout error and no System, and has started no
\* waitBackground; the handle is released exactly when that Close succeeds,
\* and stays open when the host fails to unregister the callback or to
\* close the handle.
C9_CreateTimeoutCleanup ==
    CreateTimedOut =>
        /\ creator.pending
        /\ creator.requests = <<"Create", "RegisterCallback", "Terminate">>
        /\ creator.err = makeSystemError("CreateComputeSystem", ErrTimeout)
        /\ ~creator.system
        /\ caller[Watcher].pc = "none"
        /\ caller[<<"Close", 1>>].pc = "done"
        /\ (obj.handle = 0) = (caller[<<"Close", 1>>].ret = NilError)

\* A creation has timed out and its cleanup has released the handle.
C9_Witness ==
    /\ CreateTimedOut
    /\ obj.handle = 0
    /\ obj.waitBlock = "closed"

(***************************************************************************)
(* Claims about Signal and Kill of a Process.                              *)
(***************************************************************************)
\* The last call was a Signal or a Kill that the host answered with
\* invalid-state, system-does-not-exist or element-not-found, and the
\* exit-wait signal is open.
GoneAnswers ==
    {ErrVmcomputeOperationInvalidState, ErrComputeSystemDoesNotExist, ErrElementNotFound}
AnsweredGoneWhileOpen ==
    /\ hist.lastCall.op \in {"Signal", "Kill"}
    /\ hist.lastCall.asked
    /\ hist.lastCall.hostErr \in GoneAnswers
    /\ obj.waitBlock = "open"

\* The exit-wait signal is closed with exit code -1 and one of the host's
\* "gone" answers, unwrapped, as wait error, and every caller of Wait has
\* returned that error.
ForceUnblocked ==
    /\ obj.waitBlock = "closed"
    /\ obj.exitCode = 0 - 1
    /\ obj.waitError \in {[Op |-> "", Err |-> e] : e \in GoneAnswers}
    /\ \A w \in Waiters : waiter[w].pc = "done" /\ waiter[w].err = obj.waitError

\* C12: a Signal or a Kill that found the handle open and asked the host
\* returns (true, nil) on the host's success, (false, nil) on invalid-state,
\* system-does-not-exist and element-not-found, and (false, err) on every
\* other answer, err being the answer wrapped as a process error of that
\* operation.
C12_SignalKillReturn ==
    (hist.lastCall.op \in {"Signal", "Kill"} /\ hist.lastCall.asked) =>
        LET c == hist.lastCall
        IN /\ c.hostErr = Nil => c.delivered /\ c.err = NilError
           /\ c.hostErr \in GoneAnswers => ~c.delivered /\ c.err = NilError
           /\ c.hostErr \notin GoneAnswers \cup {Nil} =>
                  /\ ~c.delivered
                  /\ c.err = [Op |-> c.op, Err |-> c.hostErr]
                  /\ c.err # NilError

\* A Kill the host refused with another error has returned it wrapped,
\* after a Signal was answered "gone".
C12_Witness ==
    /\ hist.lastCall.op = "Kill" /\ hist.lastCall.asked
    /\ hist.lastCall.hostErr = HcsError
    /\ hist.lastCall.err = [Op |-> "Kill", Err |-> HcsError]
    /\ \E t \in Timers : caller[t].pc # "none"
    /\ obj.handle # 0

\* C11: when no exit notification arrives and nobody calls Close, a Signal
\* or Kill of an open Process that the host answers with invalid-state,
\* system-does-not-exist or element-not-found while the exit-wait signal is
\* open leads to the signal being closed by a force-unblock goroutine, with
\* exit code -1, and to every caller of Wait returning the host's answer.
C11_ForceUnblock == AnsweredGoneWhileOpen ~> ForceUnblocked

\* A force-unblock goroutine has closed the signal and the waits are over.
C11_Witness ==
    /\ hist.lastCall.op \in {"Signal", "Kill"}
    /\ hist.lastCall.hostErr \in GoneAnswers
    /\ ForceUnblocked
    /\ hist.closedWith.by \in Timers
    /\ caller[Watcher].pc = "waiting"

(***************************************************************************)
(* Claims about Shutdown, Terminate and ExitCode, checked under SpecCalls. *)
(***************************************************************************)
\* C19: a Shutdown or a Terminate that found the handle open has made one
\* request to the host and returns nil when the host answered success,
\* already-stopped, does-not-exist or operation-pending, and otherwise the
\* answer wrapped as a system error of that operation; the call is a single
\* step that waits for no notification.
C19_ShutdownTerminateReturn ==
    (hist.lastCall.op \in {"Shutdown", "Terminate"} /\ hist.lastCall.asked) =>
        LET c == hist.lastCall
        IN IF c.hostErr \in {Nil, ErrVmcomputeAlreadyStopped,
                             ErrComputeSystemDoesNotExist, ErrVmcomputeOperationPending}
           THEN c.err = NilError
           ELSE c.err = [Op |-> c.op, Err |-> c.hostErr] /\ c.err # NilError

\* A Terminate the host left pending has returned nil while the exit
\* notification is still awaited.
C19_Witness ==
    /\ hist.lastCall.op = "Terminate" /\ hist.lastCall.asked
    /\ hist.lastCall.hostErr = ErrVmcomputeOperationPending
    /\ hist.lastCall.err = NilError
    /\ caller[Watcher].pc = "waiting"
    /\ obj.handle # 0

\* C20: ExitCode of a Process can always be called and returns at once;
\* called while the exit-wait signal is open it returns an
\* ErrInvalidProcessState process error, and called after the signal was
\* closed it returns the recorded exit code.
C20_ExitCodeNonBlocking ==
    /\ [](obj.kind = "process" => ENABLED ExitCode)
    /\ [][ExitCode =>
             IF obj.waitBlock = "open"
             THEN hist'.lastCall.err =
                      [Op |-> "ExitCode", Err |-> ErrInvalidProcessState]
             ELSE hist'.lastCall.code = obj.exitCode]_vars

\* ExitCode has returned the exit code 3 that waitBackground recorded.
C20_Witness ==
    /\ hist.lastCall.op = "ExitCode"
    /\ hist.lastCall.code = 3 /\ hist.lastCall.err = NilError
    /\ obj.waitBlock = "closed" /\ obj.exitCode = 3

(***************************************************************************)
(* Claims about Close, checked under SpecClose.                            *)
(***************************************************************************)
\* A Close has returned nil: the handle is 0 and the Close that zeroed it
\* has released the handle lock.
ClosedOnce == obj.handle = 0 /\ handleLock.w = <<>>

\* After a Close returned nil, a step leaves the object and the callback
\* registry as they are, closes no wait signal, takes no Close past its
\* check of the handle, and a Close that returns in it returns nil.
FurtherCloseIsNoOp ==
    ClosedOnce =>
        /\ obj' = obj
        /\ callbackMap' = callbackMap
        /\ hist'.closeCount = hist.closeCount
        /\ \A c \in ConcurrentClosers :
               /\ caller'[c].pc \notin {"unregisterCallback", "unregistered",
                                         "do", "write", "close", "doDone",
                                         "return"}
               /\ (caller[c].pc = "idle" /\ caller'[c].pc = "done") =>
                      caller'[c].ret = NilError

\* C13: once a Close of a System has returned nil, every further Close,
\* called after it or waiting for the handle lock meanwhile, returns nil
\* without unregistering the callback, asking the host to close the handle
\* or closing the exit-wait signal; and the handle, once 0, stays 0.
C13_SystemCloseOnce ==
    [][obj.kind = "system" =>
           /\ FurtherCloseIsNoOp
           /\ obj.handle = 0 => obj'.handle = 0]_vars

\* A second Close of a closed System has returned nil, after the first
\* closed the exit-wait signal.
C13_Witness ==
    /\ obj.kind = "system"
    /\ ClosedOnce
    /\ hist.closedWith.by = <<"Close", 1>>
    /\ caller[<<"Close", 1>>].pc = "done"
    /\ caller[<<"Close", 2>>].pc = "done" /\ caller[<<"Close", 2>>].ret = NilError

\* C14: when a Close of a Process has returned nil, every stream the
\* Process owned has been closed, its callback is unregistered, the handle
\* is 0, and the exit-wait signal is closed, with ErrAlreadyClosed and exit
\* code -1 if it was Close that closed it; from then on a Close returns nil
\* and changes nothing.
C14_ProcessCloseIdempotent ==
    /\ []((obj.kind = "process" /\ ClosedOnce) =>
             /\ \A st \in Streams : obj.stdio[st] # "open"
             /\ obj.callbackNumber \notin DOMAIN callbackMap
             /\ obj.channels = "closed"
             /\ obj.waitBlock = "closed"
             /\ hist.closedWith.by \in ConcurrentClosers =>
                    /\ obj.waitError = [Op |-> "", Err |-> ErrAlreadyClosed]
                    /\ obj.exitCode = 0 - 1)
    /\ [][obj.kind = "process" => FurtherCloseIsNoOp]_vars

\* A Process that owned its streams is closed, Close having closed the
\* exit-wait signal, and a later Close has returned nil.
C14_Witness ==
    /\ obj.kind = "process"
    /\ ClosedOnce
    /\ \A st \in Streams : obj.stdio[st] = "closed"
    /\ hist.closedWith.by \in ConcurrentClosers
    /\ \A c \in ConcurrentClosers : caller[c].pc = "done" /\ caller[c].ret = NilError

(***************************************************************************)
(* Claims about Close and Wait, checked under SpecWait.                    *)
(***************************************************************************)
\* A Close has succeeded, no exit notification was delivered to
\* waitBackground before the callback's channels were closed (it still
\* waits, or was woken by their closing), and no force-unblock goroutine
\* was started by Signal or Kill.
ClosedBeforeExit ==
    /\ \E c \in Closers : caller[c].pc = "done" /\ caller[c].ret = NilError
    /\ obj.handle = 0
    /\ caller[Watcher].pc = "waiting" \/ caller[Watcher].err.Err = ErrHandleClose
    /\ \A t \in Timers : caller[t].pc = "none"

\* C17 as claimed: after such a Close every Wait that returns, returns
\* ErrAlreadyClosed.
C17_Original ==
    ClosedBeforeExit =>
        \A w \in Waiters :
            waiter[w].pc = "done" => waiter[w].err = [Op |-> "", Err |-> ErrAlreadyClosed]

\* C17, amended: after such a Close every Wait that returns, returns
\* ErrAlreadyClosed when it was Close that closed the exit-wait signal, and
\* the handle-closed error of waitBackground (a "Wait" system error, a
\* "waitBackground" process error) when waitBackground, woken by the closing
\* of the callback's channels, closed the signal before Close did.
C17_WaitAfterClose ==
    ClosedBeforeExit =>
        /\ obj.waitBlock = "closed"
        /\ hist.closedWith.by \in Closers \cup {Watcher}
        /\ hist.closedWith.by \in Closers =>
               obj.waitError = [Op |-> "", Err |-> ErrAlreadyClosed]
        /\ hist.closedWith.by = Watcher =>
               obj.waitError =
                   [Op |-> IF obj.kind = "system" THEN "Wait" ELSE "waitBackground",
                    Err |-> ErrHandleClose]
        /\ \A w \in Waiters : waiter[w].pc = "done" => waiter[w].err = obj.waitError

\* Close has succeeded and closed the signal itself; both callers of Wait
\* have returned ErrAlreadyClosed and waitBackground has ended.
C17_Witness ==
    /\ ClosedBeforeExit
    /\ hist.closedWith.by \in Closers
    /\ caller[Watcher].pc = "done"
    /\ \A w \in Waiters :
           waiter[w].pc = "done" /\ waiter[w].err = [Op |-> "", Err |-> ErrAlreadyClosed]

(***************************************************************************)
(* Claims about the constructors, checked under SpecCreate.                *)
(***************************************************************************)
\* C18: each constructor starts waitBackground at most once, only after its
\* registerCallback succeeded, and has started it exactly once when it
\* returns the System or Process; nothing called on the returned object
\* starts another.
C18_WatcherStartedOnce ==
    /\ hist.started <= 1
    /\ hist.started = 1 <=> caller[Watcher].pc # "none"
    /\ hist.started = 1 =>
           /\ \E i \in 1 .. Len(creator.requests) : creator.requests[i] = "RegisterCallback"
           /\ creator.failedAt # "registerCallback"
    /\ (creator.pc = "done" /\ creator.system) => hist.started = 1

\* A Process made by CreateProcess was returned with its watcher started,
\* the watcher has since closed the exit-wait signal, and the user has
\* called Kill and then closed the Process.
C18_Witness ==
    /\ creator.op = "CreateProcess"
    /\ creator.pc = "done" /\ creator.system
    /\ hist.started = 1
    /\ hist.closedWith.by = Watcher
    /\ hist.lastCall.op = "Kill"
    /\ obj.handle = 0

\* C15 as stated: no ledger operation takes the handle lock while it
\* already holds the ledger lock.
C15_Original ==
    [][\A t \in Workers :
          (t \in handleLock'.r /\ t \notin handleLock.r) => ledgerLock # t]_vars

\* C15: a ledger operation that holds both locks took the ledger lock
\* first and the handle lock (shared) second: it takes the handle lock only
\* while holding the ledger lock, and never takes the ledger lock while
\* holding the handle lock.
C15_LedgerThenHandle ==
    [][\A t \in Workers :
          /\ (t \in handleLock'.r /\ t \notin handleLock.r)
                 => (ledgerLock = t /\ ledgerLock' = t)
          /\ (ledgerLock' = t /\ ledgerLock # t)
                 => (t \notin handleLock.r /\ t \notin handleLock'.r)]_vars

C15_Witness ==
    \E t \in Workers : ledgerLock = t /\ t \in handleLock.r

\* Exactly two callers have run, both AddVSMB(p) overlapping in time, and
\* both are over, the host having refused no Modify.
TwoConcurrentAdds(p) ==
    \E a, b \in Workers :
        /\ a # b
        /\ worker[b].overlapped
        /\ \A t \in Workers :
               IF t \in {a, b}
               THEN /\ worker[t].pc \in {"done", "panicked"}
                    /\ worker[t].op = "AddVSMB"
                    /\ worker[t].hostPath = p
                    /\ worker[t].modifyErr = Nil
               ELSE worker[t].pc = "idle"

\* C16 as claimed: two concurrent AddVSMB calls for the same absent host
\* path, the host Modify succeeding, leave one entry for the path, with
\* refCount 2 and the one name allocated, and exactly one of them issued
\* the host Add.  On the Windows utility VM that Create makes each of the
\* two allocates a name and issues a host Add, and no entry is left.
C16_Original ==
    \A p \in HostPaths :
        TwoConcurrentAdds(p) =>
            /\ DOMAIN vsmbShares = {p}
            /\ vsmbShares[p].refCount = 2
            /\ vsmbShares[p].name = "s1"
            /\ vsmbCounter = 1
            /\ Cardinality({t \in Workers : worker[t].asked}) = 1

\* A step that is GetVSMBUvmPath returning.
GetVSMBUvmPathReturns == last'.op = "GetVSMBUvmPath"

\* GetVSMBUvmPath sent nothing to the host and left the ledger, every
\* reference count and the name counter as they were.
PureLookup ==
    /\ last'.modify = NoRequest
    /\ vsmbShares' = vsmbShares
    /\ vsmbCounter' = vsmbCounter
    /\ vpmemDevices' = vpmemDevices

\* C21 as claimed: GetVSMBUvmPath(P) returns the guest path of P's share
\* when P is in the ledger and ErrNotAttached when it is not, and is a pure
\* lookup in both cases.
C21_Original ==
    [][GetVSMBUvmPathReturns =>
          /\ IF last'.hostPath \in DOMAIN vsmbShares
             THEN /\ last'.err = Nil
                  /\ last'.path = GuestPath(vsmbShares[last'.hostPath])
             ELSE last'.err = ErrNotAttached
          /\ PureLookup]_vars

\* C21, amended: GetVSMBUvmPath(P) for a non-empty P returns the guest path
\* of P's share when P is in the ledger and ErrNotAttached when it is not;
\* for the empty P it returns a "no hostPath passed" error that is not
\* ErrNotAttached; in every case it is a pure lookup.
C21_GetVSMBUvmPathPure ==
    [][GetVSMBUvmPathReturns =>
          /\ IF last'.hostPath = ""
             THEN /\ last'.err = "errNoHostPath"
                  /\ last'.err \notin {Nil, ErrNotAttached}
                  /\ last'.path = ""
             ELSE IF last'.hostPath \in DOMAIN vsmbShares
             THEN /\ last'.err = Nil
                  /\ last'.path = GuestPath(vsmbShares[last'.hostPath])
             ELSE /\ last'.err = ErrNotAttached
                  /\ last'.path = ""
          /\ PureLookup]_vars

\* GetVSMBUvmPath has returned the guest path of a share that is counted
\* twice, beside another share.
C21_Witness ==
    /\ last.op = "GetVSMBUvmPath"
    /\ last.err = Nil
    /\ last.hostPath \in DOMAIN vsmbShares
    /\ last.path = GuestPath(vsmbShares[last.hostPath])
    /\ vsmbShares[last.hostPath].refCount = 2
    /\ Cardinality(DOMAIN vsmbShares) = 2

\* A value of HCSSHIM_MAX_PARALLEL_START that is absent (empty), not a
\* number, zero or negative.
NoMaximumSet(mpsS) ==
    \/ Len(mpsS) = 0
    \/ Atoi(mpsS).err # Nil
    \/ Atoi(mpsS).n <= 0

\* C22: when the maximum-parallel-start setting is absent, unparsable, zero
\* or negative, no caller of Start is ever in the throttle loop (locking,
\* testing or sleeping), however many callers run, the throttle's mutex is
\* never taken and inProgress stays as it was, 0.
C22_UnlimitedWhenUnset ==
    maxParallel \in {MaxParallelFromEnv(mpsS) :
                        mpsS \in {m \in EnvInputs : NoMaximumSet(m)}} =>
        /\ \A t \in Starters : starter[t].pc \notin {"lock", "check", "sleep"}
        /\ startsMutex = 0
        /\ inProgress = 0

\* With no maximum set, every caller is past the admission point at once.
C22_Witness ==
    /\ maxParallel = 0
    /\ inProgress = 0
    /\ \A t \in Starters : starter[t].pc \in {"request", "wait"}
    /\ \E t \in Starters : starter[t].pc = "wait"

\* The operations of C23 that test the handle and return in the same step.
GuardedCalls ==
    {"Pause", "Resume", "Modify", "Signal", "Kill", "ResizeConsole", "CloseStdin"}

\* Everything but the record of the last call is as it was.
NoStateChanged ==
    UNCHANGED <<obj, handleLock, callbackMap, nextCallback, caller, waiter,
                creator, startVars, uvmVars, ledgerVars, storeVars, dispatchVars>>

\* C23: once the handle is 0, Pause, Resume, Modify, Signal, Kill,
\* ResizeConsole and CloseStdin return an error carrying ErrAlreadyClosed
\* without asking the host and change nothing; Start returns it without a
\* host request, without taking a throttle slot or the throttle's mutex;
\* CreateProcess, CreateProcessNoStdio and OpenProcess on a closed System
\* return it without a host request, a Process or a registered callback.
C23_ClosedHandleRejected ==
    /\ [][(obj.handle = 0 /\ hist'.lastCall # hist.lastCall
              /\ hist'.lastCall.op \in GuardedCalls) =>
             /\ hist'.lastCall.err.Err = ErrAlreadyClosed
             /\ hist'.lastCall.err.Op = hist'.lastCall.op
             /\ ~hist'.lastCall.asked
             /\ ~hist'.lastCall.delivered
             /\ NoStateChanged]_vars
    /\ [][(obj.handle = 0 /\ starter[1].pc \in {"idle", "done"}
              /\ starter'[1] # starter[1]) =>
             /\ starter'[1].pc = "done"
             /\ starter'[1].ret = makeSystemError("Start", ErrAlreadyClosed)
             /\ starter'[1].requests = <<>>
             /\ UNCHANGED <<inProgress, startsMutex, maxParallel, objVars>>]_vars
    /\ [][(\E m \in {Nil, ErrMarshal}, e \in HcsResults, f \in {Nil, ErrOpenFiles} :
              OpenRequest(0, m, e, f)) =>
             /\ creator'.pc = "done"
             /\ creator'.err = makeSystemError(ErrorOp(creator.op), ErrAlreadyClosed)
             /\ creator'.requests = <<>>
             /\ ~creator'.system
             /\ UNCHANGED <<obj, handleLock, callbackMap, nextCallback, caller,
                            waiter, hist, startVars>>]_vars

\* On a closed System, Start has returned ErrAlreadyClosed and so has the
\* last call, a Pause, with the throttle free.
C23_Witness ==
    /\ obj.kind = "system"
    /\ obj.handle = 0
    /\ starter[1].pc = "done"
    /\ starter[1].ret = makeSystemError("Start", ErrAlreadyClosed)
    /\ inProgress = 0
    /\ hist.lastCall.op = "Pause"
    /\ hist.lastCall.err = makeSystemError("Pause", ErrAlreadyClosed)

\* C24: System.Properties called on a System whose handle is 0 returns an
\* error carrying ErrAlreadyClosed and does not query the host.
C24_Original ==
    [][(obj.handle = 0 /\ hist'.lastCall # hist.lastCall
           /\ hist'.lastCall.op = "Properties") =>
          /\ hist'.lastCall.err.Err = ErrAlreadyClosed
          /\ ~hist'.lastCall.asked]_vars

\* C25: unregisterCallback is race-free with dispatch: the host's
\* unregistration, which waits for every callback in flight, is done with
\* callbackMapLock not held; the waiter's channels are closed only after it
\* has completed, the registry entry is removed only after the channels are
\* closed, and no dispatch writes to a closed channel.
C25_UnregisterRaceFree ==
    /\ unreg.pc \in {"unregister", "unregisterWait"} =>
           callbackMapLock = [w |-> <<>>, r |-> callbackMapLock.r \ {<<"Close", 1>>}]
    /\ obj.channels = "closed" =>
           /\ hostCallback = "unregistered"
           /\ \A d \in Dispatchers : dispatcher[d].pc = "idle"
    /\ obj.callbackNumber \notin DOMAIN callbackMap => obj.channels = "closed"
    /\ \A d \in Dispatchers : dispatcher[d].wrote # "closed"

C25_Witness ==
    /\ obj.callbackNumber \notin DOMAIN callbackMap
    /\ obj.channels = "closed"
    /\ \E d \in Dispatchers : dispatcher[d].wrote = "open"

(***************************************************************************)
(* Claims about the exit of a System, checked under SpecExit.              *)
(***************************************************************************)
\* What the exit notification received by waitBackground carried.
ExitNotified(e) ==
    /\ caller[Watcher].pc # "waiting"
    /\ IF e = ErrVmcomputeUnexpectedExit THEN obj.exitError # NilError
       ELSE IF e = Nil THEN caller[Watcher].err = NilError /\ obj.exitError = NilError
       ELSE caller[Watcher].err.Err = e

\* A call of ExitError returns.
ExitErrorReturns == hist'.lastCall # hist.lastCall /\ hist'.lastCall.op = "ExitError"

UnexpectedExitError == [Op |-> "Wait", Err |-> ErrVmcomputeUnexpectedExit]

\* What Wait and ExitError return for the notification e when waitBackground
\* closes the exit-wait signal.
WaitOutcome(e) ==
    IF e \in {Nil, ErrVmcomputeUnexpectedExit} THEN NilError
    ELSE [Op |-> "Wait", Err |-> e]
ExitOutcome(e) ==
    IF e = Nil THEN NilError
    ELSE IF e = ErrVmcomputeUnexpectedExit THEN UnexpectedExitError
    ELSE [Op |-> "Wait", Err |-> e]

\* C26: after an exit notification reporting an unexpected exit, Wait
\* returns nil and ExitError returns the unexpected-exit error; after a clean
\* exit both return nil; after any other notification error both return that
\* error; ExitError called while the exit-wait signal is open returns a
\* "not exited" error.
C26_Original ==
    /\ [](\A e \in ExitNotifications \cup {ErrHandleClose} : \A w \in Waiters :
              (ExitNotified(e) /\ waiter[w].pc = "done") =>
                  waiter[w].err = WaitOutcome(e))
    /\ [][ExitErrorReturns =>
             IF obj.waitBlock = "open"
             THEN hist'.lastCall.err = Raw(ErrNotExited)
             ELSE \A e \in ExitNotifications \cup {ErrHandleClose} :
                      ExitNotified(e) => hist'.lastCall.err = ExitOutcome(e)]_vars

\* C26, amended: the above when waitBackground is the one that closes the
\* exit-wait signal; when Close closes it first, after any exit
\* notification, Wait and ExitError both return ErrAlreadyClosed.
C26_ExitOutcomes ==
    /\ [](\A e \in ExitNotifications \cup {ErrHandleClose} : \A w \in Waiters :
              (ExitNotified(e) /\ waiter[w].pc = "done") =>
                  waiter[w].err = IF hist.closedWith.by = Watcher
                                  THEN WaitOutcome(e)
                                  ELSE Raw(ErrAlreadyClosed))
    /\ [][ExitErrorReturns =>
             IF obj.waitBlock = "open"
             THEN hist'.lastCall.err = Raw(ErrNotExited)
             ELSE \A e \in ExitNotifications \cup {ErrHandleClose} :
                      ExitNotified(e) =>
                          hist'.lastCall.err = IF hist.closedWith.by = Watcher
                                               THEN ExitOutcome(e)
                                               ELSE Raw(ErrAlreadyClosed)]_vars

\* The exit was unexpected and waitBackground closed the signal: both
\* callers of Wait returned nil and ExitError returned the unexpected-exit
\* error.
C26_Witness ==
    /\ ExitNotified(ErrVmcomputeUnexpectedExit)
    /\ hist.closedWith.by = Watcher
    /\ \A w \in Waiters : waiter[w].pc = "done" /\ waiter[w].err = NilError
    /\ hist.lastCall.op = "ExitError"
    /\ hist.lastCall.err = UnexpectedExitError

(***************************************************************************)
(* Claims about the VPMEM table, checked under SpecVPMEM and SpecUVM.      *)
(***************************************************************************)
Occupied(devices) == {i \in DOMAIN devices : devices[i].hostPath # ""}

\* C27: the occupied slots are never more than the table has; with every
\* slot occupied, AddVPMEM of a host path that is not attached returns the
\* no-free-slot error, sends nothing to the host and leaves the table as it
\* was.
C27_FullTable ==
    [][/\ DOMAIN vpmemDevices' = Slots
       /\ Cardinality(Occupied(vpmemDevices')) <= MaxVPMEM
       /\ ( /\ last'.op = "AddVPMEM"
            /\ Occupied(vpmemDevices) = Slots
            /\ ~Attached(vpmemDevices, last'.hostPath) ) =>
              /\ last'.err = "errNoFreeVPMEM"
              /\ last'.modify = NoRequest
              /\ vpmemDevices' = vpmemDevices
      ]_vars

\* The table is full and AddVPMEM of a further path has just been refused.
C27_Witness ==
    /\ Occupied(vpmemDevices) = Slots
    /\ last.op = "AddVPMEM"
    /\ last.hostPath \in DevicePaths
    /\ ~Attached(vpmemDevices, last.hostPath)
    /\ last.err = "errNoFreeVPMEM"

\* C28: while a host path is attached, it keeps its slot and its guest
\* path: every AddVPMEM of it returns that slot and that guest path, sends
\* nothing to the host and adds one to the count; calls for other paths
\* leave it where it is; only the RemoveVPMEM of it at count 1, accepted by
\* the host, frees the slot.
C28_SlotStable ==
    [][operatingSystem = "linux" =>
          \A p \in HostPaths : \A i \in Slots :
              vpmemDevices[i].hostPath = p =>
                  /\ \/ /\ vpmemDevices'[i].hostPath = p
                        /\ vpmemDevices'[i].uvmPath = vpmemDevices[i].uvmPath
                        /\ \A j \in Slots \ {i} : vpmemDevices'[j].hostPath # p
                     \/ /\ last'.op = "RemoveVPMEM"
                        /\ last'.hostPath = p
                        /\ last'.err = Nil
                        /\ vpmemDevices[i].refCount = 1
                        /\ ~Attached(vpmemDevices', p)
                  /\ (last'.op = "AddVPMEM" /\ last'.hostPath = p) =>
                         /\ last'.err = Nil
                         /\ last'.modify = NoRequest
                         /\ last'.deviceNumber = i
                         /\ last'.path = vpmemDevices[i].uvmPath
                         /\ vpmemDevices'[i].refCount = vpmemDevices[i].refCount + 1
      ]_vars

\* A path attached to slot 1 with a guest path of the caller's has outlived
\* the device of slot 0, and a further AddVPMEM of it has returned slot 1
\* and that guest path without a host call.
C28_Witness ==
    /\ operatingSystem = "linux"
    /\ vpmemDevices[0].hostPath = ""
    /\ vpmemDevices[1].hostPath \in HostPaths
    /\ vpmemDevices[1].refCount = 2
    /\ vpmemDevices[1].uvmPath = "/mnt"
    /\ last.op = "AddVPMEM"
    /\ last.hostPath = vpmemDevices[1].hostPath
    /\ last.modify = NoRequest
    /\ last.deviceNumber = 1
    /\ last.path = "/mnt"

(***************************************************************************)
(* Claims about the compute agent store, checked under SpecStore.          *)
(***************************************************************************)
\* C29: DeleteComputeAgent(containerID) returns an error when no entry for
\* containerID exists, with or without the bucket; when it returns nil the
\* entry is gone and GetComputeAgent(containerID) returns key-not-found.
C29_Original ==
    [][agentLast'.op = "DeleteComputeAgent" =>
          LET id == agentLast'.containerID IN
          /\ (~agentDB.bucket \/ id \notin DOMAIN agentDB.data) =>
                 agentLast'.err # Nil
          /\ agentLast'.err = Nil =>
                 /\ id \notin DOMAIN agentDB'.data
                 /\ GetComputeAgentResult(agentDB', id, Nil).err = errKeyNotFound
      ]_vars

(***************************************************************************)
(* Claims about the callback registry, checked under SpecCreate.           *)
(***************************************************************************)
\* C30: once Close of the System or Process has returned nil, and once
\* CreateComputeSystem, OpenComputeSystem or CreateProcess has returned an
\* error (its deferred Close having returned nil), callbackMap holds no
\* entry for the callback number allocated for that handle, the only one
\* allocated here.
C30_Original ==
    /\ \A c \in Closers :
           (caller[c].pc = "done" /\ caller[c].ret = NilError) =>
               DOMAIN callbackMap = {}
    /\ ( /\ creator.pc = "done"
         /\ creator.err # NilError
         /\ creator.op \in {"CreateComputeSystem", "OpenComputeSystem", "CreateProcess"}
         /\ caller[<<"Close", 1>>].ret = NilError ) =>
           DOMAIN callbackMap = {}

(***************************************************************************)
(* Claims about Shutdown and Terminate on a closed System, checked under   *)
(* SpecCreate.                                                             *)
(***************************************************************************)
\* C31: Shutdown and Terminate of a System whose handle is 0 return nil
\* without asking the host and change nothing; and a System whose creation
\* failed and whose deferred Close returned nil has handle 0, so Terminate
\* of it is one of these calls.
C31_StopOnClosedHandle ==
    /\ [][(obj.handle = 0 /\ hist'.lastCall # hist.lastCall
              /\ hist'.lastCall.op \in {"Shutdown", "Terminate"}) =>
             /\ hist'.lastCall.err = NilError
             /\ ~hist'.lastCall.asked
             /\ NoStateChanged]_vars
    /\ []( ( /\ creator.pc = "done"
             /\ creator.err # NilError
             /\ caller[<<"Close", 1>>].pc = "done"
             /\ caller[<<"Close", 1>>].ret = NilError ) =>
               StopSkipped(obj.handle) )

\* A System was created and closed, and Terminate of it has returned nil
\* without a host request.
C31_Witness ==
    /\ obj.kind = "system"
    /\ creator.pc = "done" /\ creator.system
    /\ obj.handle = 0
    /\ hist.lastCall.op = "Terminate"
    /\ ~hist.lastCall.asked
    /\ hist.lastCall.err = NilError

(***************************************************************************)
(* Claims about the progress of the throttle loop, checked under           *)
(* SpecStartFair.                                                          *)
(***************************************************************************)
\* A Start is in the throttle loop: about to lock, testing, or asleep.
Polling ==
    /\ Throttled(maxParallel)
    /\ \E t \in Starters : starter[t].pc \in {"lock", "check", "sleep"}

\* A Start in the loop passes the test and leaves for the host request.
AdmissionStep ==
    \E t \in Starters : starter[t].pc = "check" /\ starter'[t].pc = "request"

\* C32: with a positive maximum, under fair scheduling and with every
\* admitted Start returning, whenever some Start is polling a polling Start
\* is eventually admitted; and a Start that goes round the loop (back to
\* Lock, or asleep) does not hold the throttle mutex.
\* A Start leaves the loop only by being admitted, so "polling is always
\* followed by an admission" is: admissions never cease while polling recurs.
C32_GateProgress ==
    /\ ([]<><<AdmissionStep>>_vars) \/ (<>[]~Polling)
    /\ [][\A t \in Starters :
             starter[t].pc \in {"lock", "check", "sleep"} =>
                 starter'[t].pc \in {"lock", "check", "sleep", "request"}]_vars
    /\ [](\A t \in Starters :
             starter[t].pc \in {"lock", "sleep"} => startsMutex # t)

\* The gate is full with one Start admitted after an earlier one returned,
\* while a third Start found it full and sleeps in the loop.
C32_Witness ==
    /\ maxParallel = 1
    /\ inProgress = 1
    /\ \E t, u, w \in Starters :
          /\ starter[t].pc = "done" /\ starter[t].requests # <<>>
          /\ starter[u].pc \in {"request", "wait", "release"}
          /\ starter[w].pc = "sleep"

(***************************************************************************)
(* Claims about CloseStdin, checked under SpecHandleOps.                   *)
(***************************************************************************)
\* C33: a CloseStdin on a closed handle or refused by the host returns an
\* error and leaves the stdio streams as they were; the local stdin stream
\* is closed by CloseStdin only in a call the host was asked and accepted.
C33_CloseStdinAfterHost ==
    [][\A e \in HostAnswers :
          CloseStdin(e) =>
             /\ (obj.handle = 0 \/ e # Nil) =>
                   /\ hist'.lastCall.op = "CloseStdin"
                   /\ hist'.lastCall.err # NilError
                   /\ obj' = obj
             /\ obj'.stdio # obj.stdio =>
                   /\ obj.handle # 0
                   /\ e = Nil
                   /\ hist'.lastCall.asked
                   /\ hist'.lastCall.err = NilError]_vars

\* The host refused a CloseStdin of a Process whose handle is open, and the
\* stdin stream is still open.
C33_Witness ==
    /\ obj.kind = "process"
    /\ obj.handle # 0
    /\ obj.stdio.stdin = "open"
    /\ hist.lastCall.op = "CloseStdin"
    /\ hist.lastCall.asked
    /\ hist.lastCall.hostErr # Nil
    /\ hist.lastCall.err = makeProcessError("CloseStdin", hist.lastCall.hostErr)

(***************************************************************************)
(* Claims about RemoveVPMEM of a path that is not attached, checked under  *)
(* SpecUVM.                                                                *)
(***************************************************************************)
\* C34 as claimed: RemoveVPMEM of a host path, the empty string included,
\* that is not the host path of an occupied slot returns an error, sends no
\* request to the host and leaves the slot table unchanged.
C34_Original ==
    [][\A p \in HostPathInputs, e \in HcsModifyResults :
          ( /\ RemoveVPMEM(p, e)
            /\ \A i \in Occupied(vpmemDevices) : vpmemDevices[i].hostPath # p ) =>
              /\ last'.op = "RemoveVPMEM"
              /\ last'.err # Nil
              /\ last'.modify = NoRequest
              /\ vpmemDevices' = vpmemDevices]_vars

(***************************************************************************)
(* Claims about the names of the shares, checked under SpecUVM.            *)
(***************************************************************************)
\* The name AddVSMB makes of a counter value.
ShareNameOf(c) == "s" \o FormatUint(c, 16)

\* C35: the name counter only grows; every share in the ledger is named
\* after a counter value already passed, every host Add names its share
\* after none of them (whether the Add succeeds or fails, and whatever was
\* removed before), and no two shares in the ledger have the same name.
C35_ShareNamesUnique ==
    /\ [][vsmbCounter' >= vsmbCounter]_vars
    /\ [](\A p \in DOMAIN vsmbShares :
             \E c \in 1 .. vsmbCounter : vsmbShares[p].name = ShareNameOf(c))
    /\ [][\A p \in HostPaths, g \in GuestRequests, o \in VSMBOptions,
             e \in HcsModifyResults :
             (AddVSMB(p, g, o, e) /\ last'.modify # NoRequest) =>
                 /\ vsmbCounter' > vsmbCounter
                 /\ \A c \in 0 .. vsmbCounter :
                        last'.modify.Settings.Name # ShareNameOf(c)
                 /\ \A q \in DOMAIN vsmbShares :
                        last'.modify.Settings.Name # vsmbShares[q].name]_vars
    /\ [](\A p, q \in DOMAIN vsmbShares :
             p # q => vsmbShares[p].name # vsmbShares[q].name)

\* Two shares are in the ledger, the second added after a host Add had
\* failed: its name is two counter values after the first one's.
C35_Witness ==
    /\ DOMAIN vsmbShares = HostPaths
    /\ vsmbCounter = 3
    /\ \E p, q \in HostPaths :
          /\ vsmbShares[p].name = ShareNameOf(1)
          /\ vsmbShares[q].name = ShareNameOf(3)

(***************************************************************************)
(* Claims about a host Add that fails, checked under SpecUVM.              *)
(***************************************************************************)
\* C36: AddVSMB of a path that has no entry sends an Add request for that
\* path to the host; when the host refuses it, AddVSMB returns the host's
\* error and the ledger is as it was, the path still without an entry, so
\* that the next AddVSMB of the path asks the host again.
C36_FailedAddVSMB ==
    [][\A p \in HostPaths, g \in GuestRequests, o \in VSMBOptions,
          e \in HcsModifyResults :
          ( /\ AddVSMB(p, g, o, e)
            /\ operatingSystem = "windows"
            /\ p \notin DOMAIN vsmbShares ) =>
              /\ last'.modify.RequestType = "Add"
              /\ last'.modify.Settings.Path = p
              /\ e # Nil =>
                    /\ last'.err = e
                    /\ vsmbShares' = vsmbShares
                    /\ p \notin DOMAIN vsmbShares']_vars

\* The host has refused the Add of a second failed AddVSMB of a path: the
\* path has no entry, and the share of the other path is still in the
\* ledger with its count.
C36_Witness ==
    /\ operatingSystem = "windows"
    /\ last.op = "AddVSMB" /\ last.err = HcsError
    /\ last.modify # NoRequest
    /\ last.modify.Settings.Name = ShareNameOf(3)
    /\ last.hostPath \notin DOMAIN vsmbShares
    /\ \E q \in HostPaths :
          /\ q \in DOMAIN vsmbShares
          /\ vsmbShares[q].name = ShareNameOf(1)
          /\ vsmbShares[q].refCount = 2

\* C37 as claimed: when the host refuses the Add of an AddVPMEM of a path
\* that is not attached, AddVPMEM returns an error and the slot table is
\* what it was before the call.
C37_Original ==
    [][\A p \in HostPaths, u \in UvmPathInputs, x \in BOOLEAN,
          e \in HcsModifyResults :
          ( /\ AddVPMEM(p, u, x, e)
            /\ operatingSystem = "linux"
            /\ ~Attached(vpmemDevices, p)
            /\ last'.modify # NoRequest
            /\ e # Nil ) =>
              /\ last'.err # Nil
              /\ vpmemDevices' = vpmemDevices]_vars

(***************************************************************************)
(* Claims about the registrations of other Systems and Processes, checked  *)
(* under SpecIsolation.                                                    *)
(***************************************************************************)
\* C38 as claimed: no step of creating, opening or closing a System or
\* Process, also when its own registration failed or was never reached,
\* unregisters or removes the registry entry of another live System or
\* Process.
C38_Original ==
    [][\A n \in DOMAIN callbackMap :
          callbackMap[n].handle = OtherCallback =>
              /\ n \in DOMAIN callbackMap'
              /\ callbackMap'[n] = callbackMap[n]]_vars

(***************************************************************************)
(* Claims about the progress of the utility VM's calls beside Close and    *)
(* the exit watcher, checked under SpecLedgerLive.                         *)
(***************************************************************************)
\* C39 as claimed: every call of AddVSMB, RemoveVSMB, GetVSMBUvmPath,
\* AddVPMEM and RemoveVPMEM (System.Modify within them) that has been
\* entered returns, every Close that has been called returns, and the exit
\* watcher, once notified, ends.  No interleaving leaves one of them
\* waiting for a lock for ever, but the AddVSMB that panics on the nil
\* share map of a utility VM made by Create never returns.
C39_Original ==
    /\ \A t \in Workers :
           (worker[t].pc \in InLedgerCall) ~> (worker[t].pc = "done")
    /\ (caller[<<"Close", 1>>].pc \in {"idle", "unregisterCallback", "unregistered",
                                       "do", "write", "close", "doDone", "return"})
           ~> (caller[<<"Close", 1>>].pc = "done")
    /\ (caller[Watcher].pc \in {"do", "write", "close", "doDone", "return"})
           ~> (caller[Watcher].pc = "done")

(***************************************************************************)
(* Claims about the accounting of the throttle, checked under SpecStart.   *)
(***************************************************************************)
\* C40 as claimed: with a positive maximum the counter always equals the
\* number of Starts between admission and return.
C40_Original ==
    maxParallel > 0 => inProgress = Cardinality(PastAdmission)

\* C40, amended: with a positive maximum the counter is never negative and
\* is the number of Starts between admission and the deferred release that
\* runs as they return; it goes down only in the deferred release of an
\* admitted Start, by one, and every admitted Start, whatever the result,
\* runs that release once before it returns; so it is 0 whenever no Start
\* is executing.
C40_SlotsAccounted ==
    /\ [](maxParallel > 0 =>
             /\ inProgress >= 0
             /\ inProgress = Cardinality(Admitted)
             /\ (\A t \in Starters : starter[t].pc \in {"idle", "done"}) =>
                    inProgress = 0)
    /\ [][maxParallel > 0 =>
             /\ inProgress' < inProgress =>
                   \E t \in Starters :
                       /\ t \in Admitted
                       /\ starter'[t].pc = "return"
                       /\ inProgress' = inProgress - 1
             /\ \A t \in Starters :
                   (t \in Admitted /\ starter'[t].pc \notin {"request", "wait", "release"}) =>
                       (starter'[t].pc = "return" /\ inProgress' = inProgress - 1)
             /\ \A t \in Starters :
                   starter'[t].pc = "done" /\ starter[t].pc # "done" =>
                       starter[t].pc = "return" \/ starter'[t].requests = <<>>]_vars

\* Three admitted Starts have returned, one with success, one with the
\* host's error and one with the timeout, and the counter is back to 0.
C40_Witness ==
    /\ maxParallel > 0
    /\ inProgress = 0
    /\ \A t \in Starters : starter[t].pc = "done" /\ starter[t].requests # <<>>
    /\ \E t \in Starters : starter[t].ret = NilError
    /\ \E t \in Starters : starter[t].ret = makeSystemError("Start", HcsError)
    /\ \E t \in Starters : starter[t].ret = makeSystemError("Start", ErrTimeout)

====
